---- MODULE Spec2Model ----
(***************************************************************************)
(* A model of the document-structure core of OCR_For_RM_rules:             *)
(*   PathEncoder        src/src/path_encoder.py (driven as in src/main.py) *)
(*   Segmenter          src/src/segmenter.py                               *)
(*   TextCleaner        src/src/text_cleaner.py                            *)
(*   SectionAggregator  src/src/text_cleaner.py                            *)
(*                                                                         *)
(* A Python str is a sequence of characters.  A character is a one-element *)
(* token: ASCII characters stand for themselves, every other character is  *)
(* written by its code point ("U7AE0" is the chapter mark U+7AE0).  The    *)
(* regular expressions of the source are operators over such sequences.    *)
(***************************************************************************)
EXTENDS Integers, Sequences, FiniteSets, TLC

VARIABLES
    \* PathEncoder (one instance, one process_pdf run)
    node_count, block_counter, current_path_stack, documents,
    \* Segmenter (one instance and its last call)
    min_length, max_length, seg_call, seg_input, seg_output,
    \* TextCleaner.clean_document and SectionAggregator.aggregate_sections
    pc, pages, page_idx, all_nodes, total_dropped, log_lines, avg_height,
    scan_idx, current_chunk, current_nodes, chunks, stats,
    agg_idx, current_section, sections,
    \* two documents processed in turn, each by its own PathEncoder and
    \* TextCleaner: the document whose instances are running, and the
    \* attributes and locals of the other document's instances
    running, parked

path_vars == <<node_count, block_counter, current_path_stack, documents>>
seg_vars == <<min_length, max_length, seg_call, seg_input, seg_output>>
clean_vars == <<pc, pages, page_idx, all_nodes, total_dropped, log_lines,
                avg_height, scan_idx, current_chunk, current_nodes, chunks, stats>>
agg_vars == <<agg_idx, current_section, sections>>
inst_vars == <<running, parked>>
vars == <<path_vars, seg_vars, clean_vars, agg_vars, inst_vars>>

----------------------------------------------------------------------------
(* Characters and character classes                                        *)

Digits == {"0", "1", "2", "3", "4", "5", "6", "7", "8", "9"}
DigitChars == <<"0", "1", "2", "3", "4", "5", "6", "7", "8", "9">>
\* CJK characters used by the patterns: di(U7B2C) zhang(U7AE0) jie(U8282)
\* tiao(U6761) kuan(U6B3E) xiang(U9879), numerals 1,2,3,10,100,1000, fu(U9644)
\* lu(U5F55) biao(U8868) tu(U56FE), and ordinary text characters.
ChineseNumerals == {"U4E00", "U4E8C", "U4E09", "U56DB", "U4E94", "U516D",
                    "U4E03", "U516B", "U4E5D", "U5341"}
CJK == ChineseNumerals \cup
       {"U767E", "U5343", "U7B2C", "U7AE0", "U8282", "U6761", "U6B3E", "U9879",
        "U9644", "U5F55", "U8868", "U56FE", "U603B", "U5219", "U4F46", "U82E5",
        "U5982", "U679C", "U4E14", "U5E76", "U540C", "U65F6", "U6587", "U5B57"}
\* python's \s and str.strip(): the model's texts hold space and newline
Whitespace == {" ", "\n"}

IsDigit(c) == c \in Digits
DigitVal(c) == (CHOOSE i \in 1..10 : DigitChars[i] = c) - 1

\* The absent value None of an Optional[str], distinct from every str.
None == <<"<None>">>
\* The absent value None of an Optional[int] level.
NoLevel == -1

----------------------------------------------------------------------------
(* str operations                                                          *)

Min(a, b) == IF a <= b THEN a ELSE b

\* s[:n] for n >= 0
Take(s, n) == SubSeq(s, 1, Min(n, Len(s)))
\* s[n:] for n >= 0 (0-based n)
Drop(s, n) == SubSeq(s, n + 1, Len(s))

\* s.startswith(p) at 1-based position i
MatchAt(s, p, i) ==
    /\ i + Len(p) - 1 <= Len(s)
    /\ \A k \in 1..Len(p) : s[i + k - 1] = p[k]

StartsWith(s, p) == MatchAt(s, p, 1)
EndsWith(s, p) == Len(p) <= Len(s) /\ MatchAt(s, p, Len(s) - Len(p) + 1)

\* p in s
Contains(s, p) == \E i \in 1..(Len(s) + 1) : MatchAt(s, p, i)

\* 1-based start of the last occurrence of p in s (0 when absent)
LastIndexOf(s, p) ==
    IF Contains(s, p)
    THEN CHOOSE i \in 1..(Len(s) + 1) :
            MatchAt(s, p, i) /\ \A j \in (i + 1)..(Len(s) + 1) : ~MatchAt(s, p, j)
    ELSE 0

\* 1-based position of the first occurrence of character c in s (0 when absent)
IndexOf(s, c) ==
    IF \E i \in 1..Len(s) : s[i] = c
    THEN CHOOSE i \in 1..Len(s) : s[i] = c /\ \A j \in 1..(i - 1) : s[j] # c
    ELSE 0

\* s.split(c) for a one-character separator
RECURSIVE Split(_, _)
Split(s, c) ==
    LET i == IndexOf(s, c)
    IN  IF i = 0 THEN <<s>>
        ELSE <<SubSeq(s, 1, i - 1)>> \o Split(Drop(s, i), c)

\* sep.join(parts)
RECURSIVE Join(_, _)
Join(parts, sep) ==
    IF Len(parts) = 0 THEN <<>>
    ELSE IF Len(parts) = 1 THEN parts[1]
    ELSE parts[1] \o sep \o Join(Tail(parts), sep)

\* s.strip()
LStripLen(s) ==
    IF \A i \in 1..Len(s) : s[i] \in Whitespace THEN Len(s)
    ELSE (CHOOSE i \in 1..Len(s) :
            s[i] \notin Whitespace /\ \A j \in 1..(i - 1) : s[j] \in Whitespace) - 1
RStripEnd(s) ==
    IF \A i \in 1..Len(s) : s[i] \in Whitespace THEN 0
    ELSE CHOOSE i \in 1..Len(s) :
            s[i] \notin Whitespace /\ \A j \in (i + 1)..Len(s) : s[j] \in Whitespace
Strip(s) == SubSeq(s, LStripLen(s) + 1, RStripEnd(s))

\* s.isdigit()
IsDigitStr(s) == Len(s) > 0 /\ \A i \in 1..Len(s) : IsDigit(s[i])

\* int(s) for a digit string
RECURSIVE IntOf(_)
IntOf(s) ==
    IF Len(s) = 0 THEN 0
    ELSE 10 * IntOf(SubSeq(s, 1, Len(s) - 1)) + DigitVal(s[Len(s)])

\* str(n) for n >= 0
RECURSIVE StrOf(_)
StrOf(n) ==
    IF n < 10 THEN <<DigitChars[n + 1]>>
    ELSE StrOf(n \div 10) \o <<DigitChars[(n % 10) + 1]>>

\* f"{n:03d}": decimal, zero-padded to at least three digits
Fmt03(n) ==
    LET d == StrOf(n)
    IN  IF Len(d) >= 3 THEN d
        ELSE IF Len(d) = 2 THEN <<"0">> \o d
        ELSE <<"0", "0">> \o d

\* a string with every whitespace character removed
RECURSIVE NoSpace(_)
NoSpace(s) ==
    IF Len(s) = 0 THEN <<>>
    ELSE IF s[1] \in Whitespace THEN NoSpace(Tail(s))
    ELSE <<s[1]>> \o NoSpace(Tail(s))

\* the concatenation of a list of strings
RECURSIVE Concat(_)
Concat(ss) == IF Len(ss) = 0 THEN <<>> ELSE ss[1] \o Concat(Tail(ss))

----------------------------------------------------------------------------
(* PathEncoder                                                             *)

HeadingTag == <<"h", "e", "a", "d", "i", "n", "g">>
BlkSeg == <<"b", "l", "k">>
BlkInfix == <<".", "b", "l", "k", ".">>

\* build_path, lines 131-144: the numbering split on "." and each part
\* rendered; a part that is not a digit string is rendered as 1 (the except
\* branch needs a part with isdigit() true and int() failing, which no
\* character of the model's alphabet gives).
path_parts(numbering) ==
    LET parts == Split(numbering, ".")
    IN  [i \in 1..Len(parts) |->
            Fmt03(IF IsDigitStr(parts[i]) THEN IntOf(parts[i]) ELSE 1)]

\* _build_auto_path formatting the counter before incrementing it
build_auto_path_stale(stack, counter) ==
    [path |-> IF Len(stack) > 0
              THEN Join(stack, <<".">>) \o BlkInfix \o Fmt03(counter)
              ELSE BlkSeg \o <<".">> \o Fmt03(counter),
     stack |-> stack,
     block_counter |-> counter + 1]

\* _build_auto_path: the counter is incremented, then the path is built on
\* the current stack.
build_auto_path(stack, counter) ==
    LET c == counter + 1
    IN  [path |-> IF Len(stack) > 0
                  THEN Join(stack, <<".">>) \o BlkInfix \o Fmt03(c)
                  ELSE BlkSeg \o <<".">> \o Fmt03(c),
         stack |-> stack,
         block_counter |-> c]

\* build_path(numbering, level) on an encoder with the given stack and
\* block counter: the returned path and the encoder's new stack and counter.
build_path(numbering, level, stack, counter) ==
    IF numbering = HeadingTag \/ level = NoLevel
    THEN build_auto_path(stack, counter)
    ELSE LET pp == path_parts(numbering)
         IN  [path |-> Join(pp, <<".">>),
              stack |-> IF level # 0 THEN Take(pp, level) ELSE stack,
              block_counter |-> counter]

add_block_path(stack, counter) == build_auto_path(stack, counter)

\* get_parent_path joining parts[1:] where the code joins parts[:-1]
get_parent_path_tail(path) ==
    IF Len(path) = 0 THEN None
    ELSE LET p1 == IF Contains(path, BlkInfix)
                   THEN SubSeq(path, 1, LastIndexOf(path, BlkInfix) - 1)
                   ELSE path
             parts == Split(p1, ".")
         IN  IF Len(parts) <= 1 THEN None
             ELSE Join(SubSeq(parts, 2, Len(parts)), <<".">>)

\* get_parent_path(path)
get_parent_path(path) ==
    IF Len(path) = 0 THEN None
    ELSE LET p1 == IF Contains(path, BlkInfix)
                   THEN SubSeq(path, 1, LastIndexOf(path, BlkInfix) - 1)
                   ELSE path
             parts == Split(p1, ".")
         IN  IF Len(parts) <= 1 THEN None
             ELSE Join(SubSeq(parts, 1, Len(parts) - 1), <<".">>)

\* reset_for_new_section(level): the new stack (the block counter becomes 0)
reset_for_new_section(level, stack) ==
    IF level <= Len(stack) THEN Take(stack, level) ELSE stack

----------------------------------------------------------------------------
(* PathEncoder.detect_heading_level and Segmenter.is_heading               *)

UpperSeq == <<"A", "B", "C", "D", "E", "F", "G", "H", "I", "J", "K", "L", "M",
              "N", "O", "P", "Q", "R", "S", "T", "U", "V", "W", "X", "Y", "Z">>
LowerSeq == <<"a", "b", "c", "d", "e", "f", "g", "h", "i", "j", "k", "l", "m",
              "n", "o", "p", "q", "r", "s", "t", "u", "v", "w", "x", "y", "z">>
IsUpper(c) == \E i \in 1..26 : UpperSeq[i] = c
IsLower(c) == \E i \in 1..26 : LowerSeq[i] = c
IsLetter(c) == IsUpper(c) \/ IsLower(c)
IsWordChar(c) == IsLetter(c) \/ IsDigit(c) \/ c \in CJK \/ c = "_"

\* c.upper() and c.lower() for one character
Upper(c) == IF IsLower(c) THEN UpperSeq[CHOOSE i \in 1..26 : LowerSeq[i] = c] ELSE c
Lower(c) == IF IsUpper(c) THEN LowerSeq[CHOOSE i \in 1..26 : UpperSeq[i] = c] ELSE c
LowerStr(s) == [i \in 1..Len(s) |-> Lower(s[i])]

\* ord(c) of the characters ord() is applied to
Ord(c) ==
    IF IsUpper(c) THEN 64 + (CHOOSE i \in 1..26 : UpperSeq[i] = c)
    ELSE IF IsLower(c) THEN 96 + (CHOOSE i \in 1..26 : LowerSeq[i] = c)
    ELSE IF IsDigit(c) THEN 48 + DigitVal(c)
    ELSE CASE c = "_" -> 95
           [] c = "U4E00" -> 19968
           [] c = "U4E8C" -> 20108
           [] c = "U4E09" -> 19977
           [] c = "U56DB" -> 22235
           [] c = "U4E94" -> 20116
           [] c = "U516D" -> 20845
           [] c = "U4E03" -> 19971
           [] c = "U516B" -> 20843
           [] c = "U4E5D" -> 20061
           [] c = "U5341" -> 21313
           [] c = "U767E" -> 30334
           [] c = "U5343" -> 21315
           [] c = "U7B2C" -> 31532
           [] c = "U7AE0" -> 31456
           [] c = "U8282" -> 33410
           [] c = "U6761" -> 26465
           [] c = "U6B3E" -> 27454
           [] c = "U9879" -> 39033
           [] c = "U9644" -> 38468
           [] c = "U5F55" -> 24405
           [] c = "U8868" -> 34920
           [] c = "U56FE" -> 22270
           [] c = "U603B" -> 24635
           [] c = "U5219" -> 21017
           [] c = "U4F46" -> 20294
           [] c = "U82E5" -> 33509
           [] c = "U5982" -> 22914
           [] c = "U679C" -> 26524
           [] c = "U4E14" -> 19988
           [] c = "U5E76" -> 24182
           [] c = "U540C" -> 21516
           [] c = "U65F6" -> 26102
           [] c = "U6587" -> 25991
           [] c = "U5B57" -> 23383

\* last index of the maximal run of digits starting at i (i - 1 when no digit)
DigitRunEnd(s, i) ==
    IF i > Len(s) \/ ~IsDigit(s[i]) THEN i - 1
    ELSE CHOOSE e \in i..Len(s) :
            /\ \A k \in i..e : IsDigit(s[k])
            /\ (e = Len(s) \/ ~IsDigit(s[e + 1]))

\* e ends a match of \d+(?:\.\d+)*; the end of the greedy match
RECURSIVE DottedEnd(_, _)
DottedEnd(s, e) ==
    IF e + 2 <= Len(s) /\ s[e + 1] = "." /\ IsDigit(s[e + 2])
    THEN DottedEnd(s, DigitRunEnd(s, e + 2))
    ELSE e

\* the separator class [\.<U3001>\s] of pattern1
NumberingSeps == {".", "U3001"} \cup Whitespace

\* group 1 of ^(\d+(?:\.\d+)*)[\.<U3001>\s]+ on text, None without a match.
\* The greedy match is tried first; when no separator follows it the regex
\* gives back the last ".digits" group, whose dot is then the separator.
pattern1(text) ==
    LET d == DigitRunEnd(text, 1)
        g == DottedEnd(text, d)
    IN  IF d = 0 THEN None
        ELSE IF g < Len(text) /\ text[g + 1] \in NumberingSeps THEN SubSeq(text, 1, g)
        ELSE IF g > d
             THEN SubSeq(text, 1, LastIndexOf(SubSeq(text, 1, g), <<".">>) - 1)
        ELSE None

SectionMarks == {"U7AE0", "U8282", "U6761", "U6B3E", "U9879"}
Pattern2Class == ChineseNumerals \cup {"U767E"} \cup Digits

\* last index of the run of Pattern2Class characters starting at 2
Pattern2RunEnd(text) ==
    IF Len(text) < 2 \/ text[2] \notin Pattern2Class THEN 1
    ELSE CHOOSE e \in 2..Len(text) :
            /\ \A k \in 2..e : text[k] \in Pattern2Class
            /\ (e = Len(text) \/ text[e + 1] \notin Pattern2Class)

\* ^<U7B2C>([numerals and digits]+)(a section mark)
pattern2_matches(text) ==
    /\ Len(text) >= 3
    /\ text[1] = "U7B2C"
    /\ Pattern2RunEnd(text) >= 2
    /\ Pattern2RunEnd(text) < Len(text)
    /\ text[Pattern2RunEnd(text) + 1] \in SectionMarks

\* level_map
level_map(mark) ==
    CASE mark = "U7AE0" -> 1
      [] mark = "U8282" -> 2
      [] mark = "U6761" -> 3
      [] mark = "U6B3E" -> 4
      [] mark = "U9879" -> 5
      [] OTHER -> 1

\* chinese_map
chinese_map(c) ==
    CASE c = "U4E00" -> 1 [] c = "U4E8C" -> 2 [] c = "U4E09" -> 3
      [] c = "U56DB" -> 4 [] c = "U4E94" -> 5 [] c = "U516D" -> 6
      [] c = "U4E03" -> 7 [] c = "U516B" -> 8 [] c = "U4E5D" -> 9
      [] c = "U5341" -> 10 [] c = "U767E" -> 100 [] c = "U5343" -> 1000
      [] OTHER -> 0

\* the loop of _chinese_to_arabic over s with the running result and temp
RECURSIVE ChineseLoop(_, _, _)
ChineseLoop(s, result, temp) ==
    IF Len(s) = 0 THEN result + temp
    ELSE LET val == chinese_map(s[1])
         IN  IF val = 0 THEN ChineseLoop(Tail(s), result, temp)
             ELSE IF val >= 10
                  THEN ChineseLoop(Tail(s),
                                   result + (IF temp # 0 THEN temp * val ELSE val), 0)
             ELSE ChineseLoop(Tail(s), result, val)

chinese_to_arabic(chinese_num) ==
    IF IsDigitStr(chinese_num) THEN IntOf(chinese_num)
    ELSE LET r == ChineseLoop(chinese_num, 0, 0)
         IN  IF r # 0 THEN r ELSE 1

\* the prefixes (<U9644><U5F55>|<U8868>|<U56FE>|Table|Fig) of pattern3, in order
Pattern3Prefixes ==
    << <<"U9644", "U5F55">>, <<"U8868">>, <<"U56FE">>,
       <<"t", "a", "b", "l", "e">>, <<"f", "i", "g">> >>

\* the length of the prefix of pattern3 that text starts with under
\* re.IGNORECASE (0 when none)
Pattern3PrefixLen(text) ==
    LET low == LowerStr(text)
        hits == {i \in 1..Len(Pattern3Prefixes) : StartsWith(low, Pattern3Prefixes[i])}
    IN  IF hits = {} THEN 0
        ELSE Len(Pattern3Prefixes[CHOOSE i \in hits : \A j \in hits : i <= j])

\* group 2 of pattern3, [^\d]*(\d+(?:\.\d+)*|\w+) after a prefix of length p:
\* the greedy [^\d]* stops at the first digit, where the dotted number is
\* taken; when it runs to the end of the text the regex gives characters
\* back until one is a word character, and \w+ takes that one character.
Pattern3Suffix(text, p) ==
    LET digitsAt == {i \in (p + 1)..Len(text) : IsDigit(text[i])}
        wordAt == {i \in (p + 1)..Len(text) : IsWordChar(text[i])}
    IN  IF digitsAt # {}
        THEN LET n == CHOOSE i \in digitsAt : \A j \in digitsAt : i <= j
             IN  SubSeq(text, n, DottedEnd(text, DigitRunEnd(text, n)))
        ELSE IF wordAt # {}
        THEN <<text[CHOOSE i \in wordAt : \A j \in wordAt : j <= i]>>
        ELSE None

TableTag == <<"t", "a", "b", "l", "e">>
FigureTag == <<"f", "i", "g", "u", "r", "e">>
\* the appendix base offset of NUMBERING_MAPPING
AppendixBase == 900

\* lines 56-73: the NUMBERING_MAPPING lookup on a pattern3 match.  prefix is
\* group 1 lower-cased; the appendix branch raises inside try (and falls
\* through) when the suffix is neither a digit string nor one character.
pattern3_result(text) ==
    LET p == Pattern3PrefixLen(text)
        prefix == LowerStr(SubSeq(text, 1, p))
        suffix == Pattern3Suffix(text, p)
    IN  IF p = 0 \/ suffix = None THEN [numbering |-> None, level |-> NoLevel]
        ELSE IF prefix = <<"U9644", "U5F55">>
        THEN IF IsDigitStr(suffix)
             THEN [numbering |-> StrOf(AppendixBase + IntOf(suffix)), level |-> 1]
             ELSE IF Len(suffix) = 1
             THEN [numbering |-> StrOf(AppendixBase + Ord(Upper(suffix[1])) - 65 + 1),
                   level |-> 1]
             ELSE [numbering |-> None, level |-> NoLevel]
        ELSE IF prefix = <<"U8868">> \/ prefix = TableTag
        THEN [numbering |-> TableTag \o <<".">> \o suffix, level |-> 2]
        ELSE [numbering |-> FigureTag \o <<".">> \o suffix, level |-> 2]

OpenParens == {"(", "UFF08"}
CloseParens == {")", "UFF09"}

\* ^[<UFF08>\(]?([a-zA-Z])[<UFF09>\)]\.?\s+ : the position of the letter
\* (0 without a match)
pattern4(text) ==
    LET i == IF Len(text) > 0 /\ text[1] \in OpenParens THEN 2 ELSE 1
        j == IF i + 2 <= Len(text) /\ text[i + 2] = "." THEN i + 3 ELSE i + 2
    IN  IF /\ i + 1 <= Len(text)
           /\ IsLetter(text[i])
           /\ text[i + 1] \in CloseParens
           /\ j <= Len(text)
           /\ text[j] \in Whitespace
        THEN i
        ELSE 0

\* font_size > avg_font_size * 1.2, in tenths
FontIsLarge(font_size, avg_font_size) == font_size * 10 > avg_font_size * 12

MaxHeadingTextLen == 200
ShortTextLen == 80

\* detect_heading_level trying the font-size rule (pattern 5) before the
\* numbering patterns
detect_heading_level_font_first(raw, font_size, avg_font_size) ==
    LET text == Strip(raw)
        n1 == pattern1(text)
        r3 == pattern3_result(text)
        l4 == pattern4(text)
    IN  IF Len(text) = 0 \/ Len(text) > MaxHeadingTextLen
        THEN [numbering |-> None, level |-> NoLevel]
        ELSE IF Len(text) < ShortTextLen /\ FontIsLarge(font_size, avg_font_size)
        THEN [numbering |-> HeadingTag, level |-> NoLevel]
        ELSE IF n1 # None
        THEN [numbering |-> n1, level |-> Len(Split(n1, "."))]
        ELSE IF pattern2_matches(text)
        THEN [numbering |-> StrOf(chinese_to_arabic(SubSeq(text, 2, Pattern2RunEnd(text)))),
              level |-> level_map(text[Pattern2RunEnd(text) + 1])]
        ELSE IF r3.numbering # None THEN r3
        ELSE IF l4 # 0
        THEN [numbering |-> StrOf(Ord(Upper(text[l4])) - 65 + 1), level |-> 3]
        ELSE [numbering |-> None, level |-> NoLevel]

\* detect_heading_level(text, font_size, avg_font_size)
detect_heading_level(raw, font_size, avg_font_size) ==
    LET text == Strip(raw)
        n1 == pattern1(text)
        r3 == pattern3_result(text)
        l4 == pattern4(text)
    IN  IF Len(text) = 0 \/ Len(text) > MaxHeadingTextLen
        THEN [numbering |-> None, level |-> NoLevel]
        ELSE IF n1 # None
        THEN [numbering |-> n1, level |-> Len(Split(n1, "."))]
        ELSE IF pattern2_matches(text)
        THEN [numbering |-> StrOf(chinese_to_arabic(SubSeq(text, 2, Pattern2RunEnd(text)))),
              level |-> level_map(text[Pattern2RunEnd(text) + 1])]
        ELSE IF r3.numbering # None THEN r3
        ELSE IF l4 # 0
        THEN [numbering |-> StrOf(Ord(Upper(text[l4])) - 65 + 1), level |-> 3]
        ELSE IF Len(text) < ShortTextLen /\ FontIsLarge(font_size, avg_font_size)
        THEN [numbering |-> HeadingTag, level |-> NoLevel]
        ELSE [numbering |-> None, level |-> NoLevel]

\* ^[<UFF08>\(]?[numeral]\w{0,2}[<UFF09>\)] of Segmenter.is_heading
ChineseOrdinal(text) ==
    LET i == IF Len(text) > 0 /\ text[1] \in OpenParens THEN 2 ELSE 1
    IN  /\ i <= Len(text)
        /\ text[i] \in ChineseNumerals
        /\ \E k \in 0..2 :
              /\ i + k + 1 <= Len(text)
              /\ \A m \in 1..k : IsWordChar(text[i + m])
              /\ text[i + k + 1] \in CloseParens

\* ^[<UFF08>\(]?[a-zA-Z][<UFF09>\)] of Segmenter.is_heading
LetterOrdinal(text) ==
    LET i == IF Len(text) > 0 /\ text[1] \in OpenParens THEN 2 ELSE 1
    IN  i + 1 <= Len(text) /\ IsLetter(text[i]) /\ text[i + 1] \in CloseParens

\* Segmenter.is_heading(text, font_size, avg_font_size)
is_heading(raw, font_size, avg_font_size) ==
    LET text == Strip(raw)
    IN  /\ Len(text) < ShortTextLen
        /\ \/ pattern1(text) # None
           \/ pattern2_matches(text)
           \/ ChineseOrdinal(text)
           \/ LetterOrdinal(text)
           \/ Pattern3PrefixLen(text) > 0
           \/ FontIsLarge(font_size, avg_font_size)

----------------------------------------------------------------------------
(* PDFProcessor.process_pdf: the PathEncoder as src/main.py drives it      *)

\* the number of nodes one run emits
MaxNodes == 3

\* the texts of the heading blocks of a run: dotted numberings, chapter and
\* section marks, appendix and table captions, a lettered and a numeral
\* enumeration, and a plain title
HeadingTexts ==
    {<<"1", " ", "U6587">>,
     <<"1", ".", "1", " ", "U6587">>,
     <<"1", ".", "2", " ", "U6587">>,
     <<"1", ".", "2", ".", "3", " ", "U6587">>,
     <<"1", "2", ".", "1", " ", "U6587">>,
     <<"1", ".", "2", "U6587">>,
     <<"U7B2C", "U4E00", "U7AE0", " ", "U603B">>,
     <<"U7B2C", "U4E00", "U8282">>,
     <<"U7B2C", "U5341", "U4E8C", "U6761">>,
     <<"U9644", "U5F55", "A">>,
     <<"U9644", "U5F55", "A", " ", "U603B", "U5219">>,
     <<"U8868", "3">>,
     <<"(", "a", ")", " ", "U6587">>,
     <<"(", "U4E00", ")", "U6587">>,
     <<"U6587", "U5B57">>}

\* the font sizes of a block; the page average is the default 12.0
FontSizes == {12, 15}
AvgFontSize == 12

\* the value of a key the node record does not have
Absent == <<"<absent>">>

\* a value is truthy in `if numbering:`
TruthyStr(v) == v # None /\ Len(v) > 0
\* a level is truthy in `if level:`
TruthyLevel(l) == l # NoLevel /\ l # 0

PathInit ==
    /\ node_count = 0
    /\ block_counter = 0
    /\ current_path_stack = <<>>
    /\ documents = <<>>

\* lines 170-183: the page's raw text kept as a node
RawTextNode ==
    /\ Len(documents) < MaxNodes
    /\ LET r == add_block_path(current_path_stack, block_counter)
       IN  /\ documents' = Append(documents,
                [content_type |-> "page_raw_text",
                 content |-> <<>>,
                 path |-> r.path,
                 parent_path |-> get_parent_path(
                     IF Len(current_path_stack) > 0
                     THEN current_path_stack[Len(current_path_stack)]
                     ELSE <<>>),
                 numbering |-> None,
                 level |-> NoLevel])
           /\ block_counter' = r.block_counter
           /\ current_path_stack' = r.stack
    /\ node_count' = node_count + 1
    /\ UNCHANGED <<seg_vars, clean_vars, agg_vars, inst_vars>>

\* the table node appended without the call of increment_node_count
TableNodeUncounted ==
    /\ Len(documents) < MaxNodes
    /\ LET r == add_block_path(current_path_stack, block_counter)
       IN  /\ documents' = Append(documents,
                [content_type |-> "table",
                 content |-> <<>>,
                 path |-> r.path,
                 parent_path |-> Absent,
                 numbering |-> None,
                 level |-> NoLevel])
           /\ block_counter' = r.block_counter
           /\ current_path_stack' = r.stack
    /\ UNCHANGED <<node_count, seg_vars, clean_vars, agg_vars, inst_vars>>

\* lines 185-205: one table of the page
TableNode ==
    /\ Len(documents) < MaxNodes
    /\ LET r == add_block_path(current_path_stack, block_counter)
       IN  /\ documents' = Append(documents,
                [content_type |-> "table",
                 content |-> <<>>,
                 path |-> r.path,
                 parent_path |-> Absent,
                 numbering |-> None,
                 level |-> NoLevel])
           /\ block_counter' = r.block_counter
           /\ current_path_stack' = r.stack
    /\ node_count' = node_count + 1
    /\ UNCHANGED <<seg_vars, clean_vars, agg_vars, inst_vars>>

\* what process_blocks_to_segments (is_heading) and line 226
\* (detect_heading_level on the stripped text) make of each block of the run
Classified ==
    [raw \in HeadingTexts, font_size \in FontSizes |->
        [heading |-> Len(Strip(raw)) > 0 /\ is_heading(raw, font_size, AvgFontSize),
         detected |-> detect_heading_level(Strip(raw), font_size, AvgFontSize)]]

\* lines 225-256: a block process_blocks_to_segments classified as a heading
HeadingBlock(raw, font_size) ==
    /\ Len(documents) < MaxNodes
    /\ Classified[raw, font_size].heading
    /\ LET text == Strip(raw)
           d == Classified[raw, font_size].detected
           b == IF TruthyStr(d.numbering)
                THEN build_path(d.numbering, d.level, current_path_stack, block_counter)
                ELSE add_block_path(current_path_stack, block_counter)
           reset == TruthyStr(d.numbering) /\ TruthyLevel(d.level)
       IN  /\ documents' = Append(documents,
                [content_type |-> "heading",
                 content |-> text,
                 path |-> b.path,
                 parent_path |-> get_parent_path(b.path),
                 numbering |-> d.numbering,
                 level |-> d.level])
           /\ current_path_stack' =
                IF reset THEN reset_for_new_section(d.level, b.stack) ELSE b.stack
           /\ block_counter' = IF reset THEN 0 ELSE b.block_counter
    /\ node_count' = node_count + 1
    /\ UNCHANGED <<seg_vars, clean_vars, agg_vars, inst_vars>>

\* lines 258-279: one non-blank segment of a paragraph block
ParagraphSegment ==
    /\ Len(documents) < MaxNodes
    /\ LET r == add_block_path(current_path_stack, block_counter)
       IN  /\ documents' = Append(documents,
                [content_type |-> "paragraph",
                 content |-> <<>>,
                 path |-> r.path,
                 parent_path |-> get_parent_path(r.path),
                 numbering |-> None,
                 level |-> NoLevel])
           /\ block_counter' = r.block_counter
           /\ current_path_stack' = r.stack
    /\ node_count' = node_count + 1
    /\ UNCHANGED <<seg_vars, clean_vars, agg_vars, inst_vars>>

PathNext ==
    \/ RawTextNode
    \/ TableNode
    \/ \E raw \in HeadingTexts, font_size \in FontSizes : HeadingBlock(raw, font_size)
    \/ ParagraphSegment

----------------------------------------------------------------------------
(* Segmenter                                                               *)

\* sentence_delimiters: the class [<U3002><UFF01><UFF1F><UFF1B><U2026>\n]
SentenceDelimiters == {"U3002", "UFF01", "UFF1F", "UFF1B", "U2026", "\n"}
\* punctuations of _force_split_at_punctuation
Punctuations == {"UFF0C", ",", "U3001", "UFF1B", ";", "UFF1A", ":"}

\* the length of the maximal prefix of s whose characters are (are not) delimiters
RunLen(s, inClass) ==
    IF \A i \in 1..Len(s) : (s[i] \in SentenceDelimiters) = inClass THEN Len(s)
    ELSE (CHOOSE i \in 1..Len(s) :
            /\ (s[i] \in SentenceDelimiters) # inClass
            /\ \A j \in 1..(i - 1) : (s[j] \in SentenceDelimiters) = inClass) - 1

\* re.split('([delimiters]+)', s): text pieces and delimiter runs in turn,
\* starting and ending with a (possibly empty) text piece
RECURSIVE ReSplit(_)
ReSplit(s) ==
    LET n == RunLen(s, FALSE)
        rest == Drop(s, n)
        m == RunLen(rest, TRUE)
    IN  IF Len(rest) = 0 THEN <<s>>
        ELSE <<SubSeq(s, 1, n), SubSeq(rest, 1, m)>> \o ReSplit(Drop(rest, m))

\* the while loop of split_into_sentences from index i (1-based)
RECURSIVE SentenceLoop(_, _)
SentenceLoop(sentences, i) ==
    IF i > Len(sentences) THEN <<>>
    ELSE IF Len(Strip(sentences[i])) > 0
    THEN IF /\ i + 1 <= Len(sentences)
            /\ Len(sentences[i + 1]) > 0
            /\ sentences[i + 1][1] \in SentenceDelimiters
         THEN <<Strip(sentences[i] \o sentences[i + 1])>> \o SentenceLoop(sentences, i + 2)
         ELSE <<Strip(sentences[i])>> \o SentenceLoop(sentences, i + 1)
    ELSE SentenceLoop(sentences, i + 1)

\* split_into_sentences leaving the delimiter runs out of the sentences
split_into_sentences_without_marks(text) ==
    LET parts == ReSplit(text)
        pieces == [i \in 1..((Len(parts) + 1) \div 2) |-> Strip(parts[2 * i - 1])]
    IN  SelectSeq(pieces, LAMBDA s : Len(s) > 0)

split_into_sentences(text) ==
    IF Len(text) = 0 THEN <<>> ELSE SentenceLoop(ReSplit(text), 1)

\* the for loop of merge_short_sentences: the merged list and the buffer
RECURSIVE MergeLoop(_, _, _, _)
MergeLoop(sentences, merged, current, min_len) ==
    IF Len(sentences) = 0
    THEN IF Len(current) > 0 THEN Append(merged, current) ELSE merged
    ELSE LET sentence == sentences[1]
         IN  IF Len(Strip(sentence)) = 0
             THEN MergeLoop(Tail(sentences), merged, current, min_len)
             ELSE IF Len(current) = 0
             THEN MergeLoop(Tail(sentences), merged, sentence, min_len)
             ELSE IF Len(current) < min_len
             THEN MergeLoop(Tail(sentences), merged, current \o sentence, min_len)
             ELSE MergeLoop(Tail(sentences), Append(merged, current), sentence, min_len)

\* merge_short_sentences flushing the buffer one character early
merge_short_sentences_early(sentences, min_len) ==
    MergeLoop(sentences, <<>>, <<>>, min_len - 1)

merge_short_sentences(sentences, min_len) == MergeLoop(sentences, <<>>, <<>>, min_len)

\* the for loop of _force_split_at_punctuation
RECURSIVE ForceLoop(_, _, _, _)
ForceLoop(text, parts, current, max_len) ==
    IF Len(text) = 0
    THEN IF Len(current) > 0 THEN Append(parts, current) ELSE parts
    ELSE LET cur == Append(current, text[1])
         IN  IF Len(cur) >= max_len /\ text[1] \in Punctuations
             THEN ForceLoop(Tail(text), Append(parts, cur), <<>>, max_len)
             ELSE ForceLoop(Tail(text), parts, cur, max_len)

force_split_at_punctuation(text, max_len) ==
    LET parts == ForceLoop(text, <<>>, <<>>, max_len)
    IN  IF Len(parts) > 0 THEN parts ELSE <<text>>

\* the for loop of split_long_segment
RECURSIVE PackLoop(_, _, _, _)
PackLoop(sentences, segments, current_segment, max_len) ==
    IF Len(sentences) = 0
    THEN IF Len(current_segment) > 0 THEN Append(segments, current_segment) ELSE segments
    ELSE LET sentence == sentences[1]
             flushed == IF Len(current_segment) > 0
                        THEN Append(segments, current_segment) ELSE segments
             parts == force_split_at_punctuation(sentence, max_len)
         IN  IF Len(current_segment) + Len(sentence) <= max_len
             THEN PackLoop(Tail(sentences), segments, current_segment \o sentence, max_len)
             ELSE IF Len(sentence) > max_len
             THEN PackLoop(Tail(sentences),
                           flushed \o SubSeq(parts, 1, Len(parts) - 1),
                           IF Len(parts) > 0 THEN parts[Len(parts)] ELSE <<>>,
                           max_len)
             ELSE PackLoop(Tail(sentences), flushed, sentence, max_len)

split_long_segment(text, max_len) ==
    IF Len(text) <= max_len THEN <<text>>
    ELSE PackLoop(split_into_sentences(text), <<>>, <<>>, max_len)

\* step 3 of segment_text: over-long units are split again
RECURSIVE SplitLongAll(_, _)
SplitLongAll(sentences, max_len) ==
    IF Len(sentences) = 0 THEN <<>>
    ELSE (IF Len(sentences[1]) > max_len
          THEN split_long_segment(sentences[1], max_len)
          ELSE <<sentences[1]>>) \o SplitLongAll(Tail(sentences), max_len)

\* [s.strip() for s in segments if s.strip()]
RECURSIVE StripAll(_)
StripAll(segments) ==
    IF Len(segments) = 0 THEN <<>>
    ELSE (IF Len(Strip(segments[1])) > 0 THEN <<Strip(segments[1])>> ELSE <<>>)
         \o StripAll(Tail(segments))

\* segment_text without step 2, the merge of the short sentences
segment_text_unmerged(text, min_len, max_len) ==
    IF Len(text) = 0 \/ Len(Strip(text)) = 0 THEN <<>>
    ELSE StripAll(SplitLongAll(split_into_sentences(text), max_len))

segment_text(text, min_len, max_len) ==
    IF Len(text) = 0 \/ Len(Strip(text)) = 0 THEN <<>>
    ELSE StripAll(SplitLongAll(
            merge_short_sentences(split_into_sentences(text), min_len), max_len))

----------------------------------------------------------------------------
(* TextCleaner: patterns and predicates                                    *)

\* HEADING_KEYWORDS, in list order
HEADING_KEYWORDS ==
    << <<"U9644", "U5F55">>,
       <<"U7AE0">>,
       <<"U8282">>,
       <<"U8BF4", "U660E">>,
       <<"U6D41", "U7A0B">>,
       <<"U89C4", "U5219">>,
       <<"U5904", "U7F5A">>,
       <<"U5B9A", "U4E49">>,
       <<"U7B80", "U4ECB">>,
       <<"U6982", "U8FF0">>,
       <<"U603B", "U5219">>,
       <<"U7EC6", "U5219">>,
       <<"U8981", "U6C42">>,
       <<"U6807", "U51C6">>,
       <<"U68C0", "U5F55">>,
       <<"U8D5B", "U524D">>,
       <<"U8D5B", "U4E2D">>,
       <<"U8D5B", "U540E">>,
       <<"U673A", "U5668", "U4EBA">>,
       <<"U573A", "U5730">>,
       <<"U88C1", "U5224">> >>

\* SENTENCE_END_MARKS: U+3002 and the ASCII marks ! ? : ;
SENTENCE_END_MARKS == {"U3002", "!", "?", ":", ";"}

\* the continuation connectives of _should_break
ContinuationPrefixes == { <<"U4F46">>, <<"U82E5">>, <<"U5982", "U679C">>, <<"U4E14">>, <<"U5E76">>, <<"U540C", "U65F6">> }

\* constructor defaults: confidence in hundredths, the height ratio in tenths
confidence_threshold == 10
short_line_threshold == 20
height_ratio_threshold == 13
min_gap_threshold == 15
\* ocr_confidence when the key is missing (1.0), in hundredths
DefaultConfidence == 100
\* _bbox_height of a node whose bbox is no dict, and the average of no nodes
DefaultHeight == 10

\* Regular expressions are matched by sets of positions: a position is the
\* number of characters consumed so far, and each operator gives the
\* positions reachable from P through one piece of the pattern.
AfterClassPlus(s, P, cls) ==
    {e \in 1..Len(s) : \E q \in P : q < e /\ \A k \in (q + 1)..e : s[k] \in cls}
AfterClassStar(s, P, cls) == P \cup AfterClassPlus(s, P, cls)
AfterClassOnce(s, P, cls) == {q + 1 : q \in {r \in P : r < Len(s) /\ s[r + 1] \in cls}}
AfterClassOpt(s, P, cls) == P \cup AfterClassOnce(s, P, cls)
AfterClassN(s, P, cls, n) ==
    {q + n : q \in {r \in P : r + n <= Len(s) /\ \A k \in (r + 1)..(r + n) : s[k] \in cls}}
\* .*lit : any characters but newline, then the literal
AfterDotStarLit(s, P, lit) ==
    {e \in 1..Len(s) : \E q \in P :
        /\ q + Len(lit) <= e
        /\ MatchAt(s, lit, e - Len(lit) + 1)
        /\ \A k \in (q + 1)..(e - Len(lit)) : s[k] # "\n"}

CopyrightSign == {"U00A9"}
CircledOne == {"U2460"}
\* the four characters U+7248 U+6743 U+6240 U+6709 ("all rights reserved")
RightsReserved == <<"U7248", "U6743", "U6240", "U6709">>
SeparatorChars == {"-", "=", "_"}

\* FOOTER_PATTERNS: the 1-based index of the first pattern that matches
\* content at its start (0 when none does)
footer_pattern(content) ==
    LET d == AfterClassPlus(content, {0}, Digits)
        p1 == AfterDotStarLit(content,
                AfterClassN(content,
                  AfterClassStar(content,
                    AfterClassOnce(content, AfterClassStar(content, d, Whitespace),
                                   CopyrightSign),
                    Whitespace),
                  Digits, 4),
                RightsReserved)
        p2 == AfterClassPlus(content,
                AfterClassStar(content,
                  AfterDotStarLit(content,
                    AfterClassN(content,
                      AfterClassStar(content,
                        AfterClassOnce(content, {0}, CopyrightSign), Whitespace),
                      Digits, 4),
                    RightsReserved),
                  Whitespace),
                Digits)
        p3 == AfterDotStarLit(content,
                AfterClassN(content,
                  AfterClassStar(content,
                    AfterClassOpt(content, AfterClassStar(content, d, Whitespace),
                                  CircledOne),
                    Whitespace),
                  Digits, 4),
                RightsReserved)
        \* \d+\s*$ : $ matches at the end and before a final newline
        p4 == {e \in AfterClassStar(content, d, Whitespace) :
                  e = Len(content) \/ (e = Len(content) - 1 /\ content[Len(content)] = "\n")}
        p5 == {e \in AfterClassPlus(content, {0}, SeparatorChars) :
                  e >= 3 /\ (e = Len(content)
                             \/ (e = Len(content) - 1 /\ content[Len(content)] = "\n"))}
    IN  IF p1 # {} THEN 1
        ELSE IF p2 # {} THEN 2
        ELSE IF p3 # {} THEN 3
        ELSE IF p4 # {} THEN 4
        ELSE IF p5 # {} THEN 5
        ELSE 0

NumeralOrDigit == (ChineseNumerals \cup Digits)
CircledDigits == {"U2460", "U2461", "U2462", "U2463", "U2464",
                  "U2465", "U2466", "U2467", "U2468", "U2469"}

\* NUMBERING_PATTERNS: the 1-based index of the first pattern that matches
\* content at its start (0 when none does)
numbering_pattern(content) ==
    LET di == AfterClassPlus(content, AfterClassOnce(content, {0}, {"U7B2C"}),
                             NumeralOrDigit)
        xy == AfterClassPlus(content,
                AfterClassOnce(content, AfterClassPlus(content, {0}, Digits), {"."}),
                Digits)
        xyz == AfterClassPlus(content, AfterClassOnce(content, xy, {"."}), Digits)
        par == AfterClassOnce(content,
                 AfterClassPlus(content, AfterClassOnce(content, {0}, OpenParens),
                                NumeralOrDigit),
                 CloseParens)
    IN  IF AfterClassOnce(content, di, {"U7AE0"}) # {} THEN 1
        ELSE IF AfterClassOnce(content, di, {"U8282"}) # {} THEN 2
        ELSE IF xy # {} THEN 3
        ELSE IF xyz # {} THEN 4
        ELSE IF par # {} THEN 5
        ELSE IF AfterClassOnce(content, {0}, CircledDigits) # {} THEN 6
        ELSE 0

BulletChars == {"U2022", "-", "U00B7"}
ListSeps == {".", "U3001", ")"}
AsciiLetters == {UpperSeq[i] : i \in 1..26} \cup {LowerSeq[i] : i \in 1..26}

\* LIST_PREFIXES: the text the first matching pattern matches at the start of
\* content (match.group()), None when no pattern matches
list_prefix(content) ==
    LET m1 == AfterClassOnce(content, {0}, BulletChars)
        \* greedy \d+ then one separator
        m2 == AfterClassOnce(content, AfterClassPlus(content, {0}, Digits), ListSeps)
        m3 == AfterClassOnce(content, AfterClassOnce(content, {0}, AsciiLetters), ListSeps)
        m4 == AfterClassOnce(content,
                AfterClassPlus(content, AfterClassOnce(content, {0}, OpenParens),
                               AsciiLetters \cup Digits),
                CloseParens)
        Longest(P) == CHOOSE e \in P : \A f \in P : f <= e
    IN  IF m1 # {} THEN SubSeq(content, 1, Longest(m1))
        ELSE IF m2 # {} THEN SubSeq(content, 1, Longest(m2))
        ELSE IF m3 # {} THEN SubSeq(content, 1, Longest(m3))
        ELSE IF m4 # {} THEN SubSeq(content, 1, Longest(m4))
        ELSE None

\* any(content.endswith(mark) for mark in SENTENCE_END_MARKS)
EndsWithMark(content) ==
    Len(content) > 0 /\ content[Len(content)] \in SENTENCE_END_MARKS

\* the first keyword of HEADING_KEYWORDS that occurs in content (0 when none)
FirstKeyword(content) ==
    LET hits == {i \in 1..Len(HEADING_KEYWORDS) : Contains(content, HEADING_KEYWORDS[i])}
    IN  IF hits = {} THEN 0 ELSE CHOOSE i \in hits : \A j \in hits : i <= j

\* height / avg_height >= height_ratio_threshold, avg_height = sum / n
HeightJump(height, avg) ==
    /\ avg.sum > 0
    /\ height * avg.n * 10 >= height_ratio_threshold * avg.sum

\* _is_heading(node, avg_height): (is_heading, reason)
is_heading_node(node, avg) ==
    LET content == Strip(node.content)
    IN  IF Len(content) = 0 THEN [is |-> FALSE, reason |-> ""]
        ELSE IF node.content_type = "heading"
        THEN [is |-> TRUE, reason |-> "content_type=heading"]
        ELSE IF FirstKeyword(content) # 0 THEN [is |-> TRUE, reason |-> "keyword"]
        ELSE IF numbering_pattern(content) # 0 THEN [is |-> TRUE, reason |-> "numbering"]
        ELSE IF Len(content) <= short_line_threshold /\ ~EndsWithMark(content)
        THEN [is |-> TRUE, reason |-> "short_line"]
        ELSE IF HeightJump(node.bbox_height, avg)
        THEN [is |-> TRUE, reason |-> "height"]
        ELSE [is |-> FALSE, reason |-> ""]

\* _is_list_item(node): (is_list, prefix)
is_list_item(node) ==
    LET content == Strip(node.content)
    IN  IF Len(content) = 0 THEN [is |-> FALSE, prefix |-> <<>>]
        ELSE IF list_prefix(content) # None
        THEN [is |-> TRUE, prefix |-> list_prefix(content)]
        ELSE [is |-> FALSE, prefix |-> <<>>]

----------------------------------------------------------------------------
(* TextCleaner: loading, break decision and merging                        *)

\* A node of a page file: content, content_type, source_page, the bbox (a
\* dict with its keys, a missing key, or a value that is no dict) and the
\* ocr_confidence (hundredths) when the key is present.  nid numbers the
\* nodes of the input and is no field of the program.

\* node.get() on a key no node has: always the default confidence
conf_of_default(node) == DefaultConfidence

\* node.get('ocr_confidence', 1.0), line 116
conf_of(node) == IF node.has_conf THEN node.conf ELSE DefaultConfidence

\* lines 132-141: the bbox fields _load_page_nodes adds to a node
with_bbox(node) ==
    IF node.bbox_kind = "dict"
    THEN [bbox_top |-> node.top, bbox_left |-> node.left,
          bbox_height |-> node.bottom - node.top] @@ node
    ELSE IF node.bbox_kind = "missing"
    \* node.get('bbox', {}) is the empty dict: every bbox.get() gives 0
    THEN [bbox_top |-> 0, bbox_left |-> 0, bbox_height |-> 0] @@ node
    \* the bbox is null: not a dict
    ELSE [bbox_top |-> 0, bbox_left |-> 0, bbox_height |-> DefaultHeight] @@ node

LogEntry(kind, page, conf, text, n, dropped, reason) ==
    [kind |-> kind, page |-> page, conf |-> conf, text |-> text,
     n |-> n, dropped |-> dropped, reason |-> reason]

\* the filter loop of _load_page_nodes (lines 110-143): the valid nodes and
\* the lines logged
RECURSIVE FilterLoop(_, _, _, _)
FilterLoop(nodes, page_num, valid, log) ==
    IF Len(nodes) = 0 THEN [valid |-> valid, log |-> log]
    ELSE LET node == nodes[1]
             content == Strip(node.content)
         IN  IF node.content_type = "page_raw_text"
             THEN FilterLoop(Tail(nodes), page_num, valid, log)
             ELSE IF conf_of(node) < confidence_threshold
             THEN FilterLoop(Tail(nodes), page_num, valid,
                    Append(log, LogEntry("drop_low_confidence", page_num, conf_of(node),
                                         Take(node.content, 30), 0, 0, "")))
             ELSE IF footer_pattern(content) # 0
             THEN FilterLoop(Tail(nodes), page_num, valid,
                    Append(log, LogEntry("drop_footer", page_num, 0,
                                         Take(content, 50), 0, 0, "")))
             ELSE FilterLoop(Tail(nodes), page_num, Append(valid, with_bbox(node)), log)

\* the sort key (n['_bbox_top'], n['_bbox_left']) compared
KeyLeq(a, b) ==
    \/ a.bbox_top < b.bbox_top
    \/ (a.bbox_top = b.bbox_top /\ a.bbox_left <= b.bbox_left)

\* list.sort is stable: a node goes after the nodes whose key is not greater
RECURSIVE InsertSorted(_, _)
InsertSorted(sorted, node) ==
    IF Len(sorted) = 0 THEN <<node>>
    ELSE IF KeyLeq(sorted[1], node)
    THEN <<sorted[1]>> \o InsertSorted(Tail(sorted), node)
    ELSE <<node>> \o sorted

\* _load_page_nodes without its sort: the valid nodes in file order
KeepFileOrder(nodes, sorted) == sorted \o nodes

RECURSIVE SortNodes(_, _)
SortNodes(nodes, sorted) ==
    IF Len(nodes) = 0 THEN sorted
    ELSE SortNodes(Tail(nodes), InsertSorted(sorted, nodes[1]))

\* _load_page_nodes: the valid nodes of the page in (top, left) order, and
\* the lines logged
load_page_nodes(nodes, page_num) ==
    LET f == FilterLoop(nodes, page_num, <<>>, <<>>)
    IN  [valid |-> SortNodes(f.valid, <<>>), log |-> f.log]

\* the node the closed chunk holds in place of _last_node
NoNode ==
    [nid |-> 0, content |-> <<>>, content_type |-> "", source_page |-> 0,
     bbox_kind |-> "missing", top |-> 0, left |-> 0, bottom |-> 0,
     has_conf |-> FALSE, conf |-> 0, bbox_top |-> 0, bbox_left |-> 0, bbox_height |-> 0]

\* current_chunk = None
NoChunkOpen == [open |-> FALSE, type |-> "", last_node |-> NoNode]

StartsWithAny(content, prefixes) == \E q \in prefixes : StartsWith(content, q)

\* _should_break testing the gap before the list start
should_break_gap_first(cur, node, avg) ==
    LET h == is_heading_node(node, avg)
        l == is_list_item(node)
        last_node == cur.last_node
        gap == node.bbox_top - (last_node.bbox_top + last_node.bbox_height)
        last_content == Strip(last_node.content)
        curr_content == Strip(node.content)
    IN  IF ~cur.open THEN [brk |-> FALSE, reason |-> ""]
        ELSE IF h.is THEN [brk |-> TRUE, reason |-> "heading(" \o h.reason \o ")"]
        ELSE IF gap >= min_gap_threshold THEN [brk |-> TRUE, reason |-> "large_gap"]
        ELSE IF l.is /\ cur.type # "list" THEN [brk |-> TRUE, reason |-> "list_start"]
        ELSE IF /\ Len(last_content) > 0
                /\ EndsWithMark(last_content)
                /\ ~StartsWithAny(curr_content, ContinuationPrefixes)
        THEN [brk |-> TRUE, reason |-> "sentence_end"]
        ELSE [brk |-> FALSE, reason |-> ""]

\* _should_break(current_chunk, node, avg_height): (should_break, reason)
should_break(cur, node, avg) ==
    LET h == is_heading_node(node, avg)
        l == is_list_item(node)
        last_node == cur.last_node
        gap == node.bbox_top - (last_node.bbox_top + last_node.bbox_height)
        last_content == Strip(last_node.content)
        curr_content == Strip(node.content)
    IN  IF ~cur.open THEN [brk |-> FALSE, reason |-> ""]
        ELSE IF h.is THEN [brk |-> TRUE, reason |-> "heading(" \o h.reason \o ")"]
        ELSE IF l.is /\ cur.type # "list" THEN [brk |-> TRUE, reason |-> "list_start"]
        ELSE IF gap >= min_gap_threshold THEN [brk |-> TRUE, reason |-> "large_gap"]
        ELSE IF /\ Len(last_content) > 0
                /\ EndsWithMark(last_content)
                /\ ~StartsWithAny(curr_content, ContinuationPrefixes)
        THEN [brk |-> TRUE, reason |-> "sentence_end"]
        ELSE [brk |-> FALSE, reason |-> ""]

\* re.sub(r'\s+', ' ', text)
RECURSIVE CollapseSpaces(_)
CollapseSpaces(text) ==
    IF Len(text) = 0 THEN <<>>
    ELSE IF text[1] \in Whitespace
    THEN IF Len(text) > 1 /\ text[2] \in Whitespace
         THEN CollapseSpaces(Tail(text))
         ELSE <<" ">> \o CollapseSpaces(Tail(text))
    ELSE <<text[1]>> \o CollapseSpaces(Tail(text))

\* content_parts built with insert(0, text) where the code appends
RECURSIVE ContentPartsNewestFirst(_)
ContentPartsNewestFirst(nodes) ==
    IF Len(nodes) = 0 THEN <<>>
    ELSE ContentPartsNewestFirst(Tail(nodes))
         \o (IF Len(Strip(nodes[1].content)) > 0
             THEN <<CollapseSpaces(Strip(nodes[1].content))>> ELSE <<>>)

\* content_parts of _merge_chunk (lines 251-257)
RECURSIVE ContentParts(_)
ContentParts(nodes) ==
    IF Len(nodes) = 0 THEN <<>>
    ELSE (IF Len(Strip(nodes[1].content)) > 0
          THEN <<CollapseSpaces(Strip(nodes[1].content))>> ELSE <<>>)
         \o ContentParts(Tail(nodes))

\* the type of a chunk copied from the first node's content_type
chunk_type_from_content_type(first_node) ==
    IF is_list_item(first_node).is THEN "list_item" ELSE first_node.content_type

\* the type of a chunk decided without looking at content_type
chunk_type_without_heading(first_node) ==
    IF is_list_item(first_node).is THEN "list_item" ELSE "paragraph"

chunk_type(first_node) ==
    IF first_node.content_type = "heading" THEN "heading"
    ELSE IF is_list_item(first_node).is THEN "list_item"
    ELSE "paragraph"

\* _merge_chunk(nodes) for a non-empty list: content, type, source_pages
\* (the sorted list of a set, kept as the set) and node_count; members lists
\* the nids of the nodes merged; id is 0 until clean_document numbers the
\* chunks.  bbox_range, confidence_avg and meta are read by nothing modelled.
merge_chunk(nodes) ==
    [id |-> 0,
     content |-> Join(ContentParts(nodes), <<" ">>),
     type |-> chunk_type(nodes[1]),
     source_pages |-> {nodes[i].source_page : i \in 1..Len(nodes)},
     node_count |-> Len(nodes),
     members |-> [i \in 1..Len(nodes) |-> nodes[i].nid]]

RECURSIVE SumHeights(_)
SumHeights(nodes) ==
    IF Len(nodes) = 0 THEN 0 ELSE nodes[1].bbox_height + SumHeights(Tail(nodes))

CountType(cs, t) == Cardinality({i \in 1..Len(cs) : cs[i].type = t})

----------------------------------------------------------------------------
(* TextCleaner.clean_document and SectionAggregator.aggregate_sections     *)

\* the number of nodes of the input document
MaxCleanNodes == 3

LongLine == [i \in 1..21 |-> "U6587"]

\* the nodes a page file may hold
NodeSamples ==
    { \* a chapter heading, tall, page 1
      [content_type |-> "heading", content |-> <<"U7B2C", "U4E00", "U7AE0">>, source_page |-> 1,
         bbox_kind |-> "dict", top |-> 0, left |-> 0, bottom |-> 20,
         has_conf |-> TRUE, conf |-> 100],
      \* a chapter heading, page 2
      [content_type |-> "heading", content |-> <<"U7B2C", "U4E8C", "U7AE0">>, source_page |-> 2,
         bbox_kind |-> "dict", top |-> 0, left |-> 0, bottom |-> 20,
         has_conf |-> TRUE, conf |-> 100],
      \* a numbered heading, page 3
      [content_type |-> "heading", content |-> <<"1", ".", "1", " ", "U6587">>, source_page |-> 3,
         bbox_kind |-> "dict", top |-> 0, left |-> 0, bottom |-> 10,
         has_conf |-> TRUE, conf |-> 90],
      \* a long line with no end mark (21 characters), page 1
      [content_type |-> "paragraph", content |-> LongLine, source_page |-> 1,
         bbox_kind |-> "dict", top |-> 30, left |-> 0, bottom |-> 40,
         has_conf |-> TRUE, conf |-> 100],
      \* a sentence, right below the long line
      [content_type |-> "paragraph", content |-> <<"U6587", "U3002">>, source_page |-> 1,
         bbox_kind |-> "dict", top |-> 45, left |-> 5, bottom |-> 55,
         has_conf |-> TRUE, conf |-> 100],
      \* a continuation with doubled inner spaces
      [content_type |-> "paragraph", content |-> <<"U4F46", "U6587", " ", " ", "U5B57", "U3002">>, source_page |-> 1,
         bbox_kind |-> "dict", top |-> 45, left |-> 0, bottom |-> 55,
         has_conf |-> TRUE, conf |-> 80],
      \* a list item far below, page 2
      [content_type |-> "paragraph", content |-> <<"-", " ", "U6587", "U3002">>, source_page |-> 2,
         bbox_kind |-> "dict", top |-> 100, left |-> 10, bottom |-> 110,
         has_conf |-> TRUE, conf |-> 100],
      \* a paragraph under the confidence threshold
      [content_type |-> "paragraph", content |-> <<"U5B57", "U3002">>, source_page |-> 2,
         bbox_kind |-> "dict", top |-> 30, left |-> 0, bottom |-> 40,
         has_conf |-> TRUE, conf |-> 5],
      \* the page's raw text, with a low confidence
      [content_type |-> "page_raw_text", content |-> <<"U6587", "U5B57">>, source_page |-> 1,
         bbox_kind |-> "dict", top |-> 0, left |-> 0, bottom |-> 800,
         has_conf |-> TRUE, conf |-> 5],
      \* a bare page number (footer), page 3
      [content_type |-> "paragraph", content |-> <<"1", "2">>, source_page |-> 3,
         bbox_kind |-> "dict", top |-> 200, left |-> 0, bottom |-> 210,
         has_conf |-> TRUE, conf |-> 100],
      \* a sentence far down page 3
      [content_type |-> "paragraph", content |-> <<"U5B57", "U6587", "U3002">>, source_page |-> 3,
         bbox_kind |-> "dict", top |-> 150, left |-> 0, bottom |-> 160,
         has_conf |-> TRUE, conf |-> 100],
      \* a node with empty content and no bbox key
      [content_type |-> "paragraph", content |-> <<>>, source_page |-> 2,
         bbox_kind |-> "missing", top |-> 0, left |-> 0, bottom |-> 0,
         has_conf |-> TRUE, conf |-> 100],
      \* a table whose bbox is null, no confidence key, padded content
      [content_type |-> "table", content |-> <<" ", "U6587", "U5B57", "U3002", "\n">>, source_page |-> 3,
         bbox_kind |-> "null", top |-> 0, left |-> 0, bottom |-> 0,
         has_conf |-> FALSE, conf |-> 0] }

\* the inputs: every sequence of at most MaxCleanNodes sample nodes; the
\* nodes are numbered in input order
InputDocs == UNION {[1..k -> NodeSamples] : k \in 0..MaxCleanNodes}
Numbered(doc) == [i \in 1..Len(doc) |-> [nid |-> i] @@ doc[i]]

\* page_<n>.json holds the nodes of page n in input order; there is a file
\* for every page up to the last one of the document
RECURSIVE SelectPage(_, _)
SelectPage(nodes, p) ==
    IF Len(nodes) = 0 THEN <<>>
    ELSE (IF nodes[1].source_page = p THEN <<nodes[1]>> ELSE <<>>)
         \o SelectPage(Tail(nodes), p)
PageCount(nodes) ==
    IF Len(nodes) = 0 THEN 0
    ELSE CHOOSE p \in {nodes[i].source_page : i \in 1..Len(nodes)} :
            \A i \in 1..Len(nodes) : nodes[i].source_page <= p
PageFiles(nodes) == [p \in 1..PageCount(nodes) |-> SelectPage(nodes, p)]

NoStats ==
    [total_pages |-> 0, total_nodes |-> 0, dropped_nodes |-> 0, total_chunks |-> 0,
     heading |-> 0, paragraph |-> 0, list_item |-> 0]

\* current_section = None
\* heading_chunk = None
NoChunk == [id |-> 0, content |-> <<>>, type |-> "", source_pages |-> {},
            node_count |-> 0, members |-> <<>>]
NoSection == [open |-> FALSE, has_heading |-> FALSE, heading_chunk |-> NoChunk,
              content_chunks |-> <<>>]

AggIdle ==
    /\ agg_idx = 0
    /\ current_section = NoSection
    /\ sections = <<>>

CleanInit ==
    /\ pc = "load"
    /\ \E doc \in InputDocs : pages = PageFiles(Numbered(doc))
    /\ page_idx = 1
    /\ all_nodes = <<>>
    /\ total_dropped = 0
    /\ log_lines = <<>>
    /\ avg_height = [sum |-> 0, n |-> 0]
    /\ scan_idx = 0
    /\ current_chunk = NoChunkOpen
    /\ current_nodes = <<>>
    /\ chunks = <<>>
    /\ stats = NoStats
    /\ AggIdle

\* lines 328-341: one page file loaded
LoadPage ==
    /\ pc = "load"
    /\ page_idx <= Len(pages)
    /\ LET raw == pages[page_idx]
           r == load_page_nodes(raw, page_idx)
           raw_count == Cardinality({i \in 1..Len(raw) :
                                        raw[i].content_type # "page_raw_text"})
           dropped == raw_count - Len(r.valid)
       IN  /\ all_nodes' = all_nodes \o r.valid
           /\ total_dropped' = total_dropped + dropped
           /\ log_lines' = log_lines \o r.log \o
                <<LogEntry("page_loaded", page_idx, 0, <<>>, Len(r.valid), dropped, "")>>
    /\ page_idx' = page_idx + 1
    /\ UNCHANGED <<pc, pages, avg_height, scan_idx, current_chunk, current_nodes,
                   chunks, stats, agg_vars, path_vars, seg_vars, inst_vars>>

\* lines 343-353: the average bbox height, and the scan set up
StartScan ==
    /\ pc = "load"
    /\ page_idx > Len(pages)
    /\ avg_height' = IF Len(all_nodes) > 0
                     THEN [sum |-> SumHeights(all_nodes), n |-> Len(all_nodes)]
                     ELSE [sum |-> DefaultHeight, n |-> 1]
    /\ log_lines' = Append(log_lines,
            LogEntry("total_loaded", 0, 0, <<>>, Len(all_nodes), total_dropped, ""))
    /\ chunks' = <<>>
    /\ current_chunk' = NoChunkOpen
    /\ current_nodes' = <<>>
    /\ scan_idx' = 1
    /\ pc' = "scan"
    /\ UNCHANGED <<pages, page_idx, all_nodes, total_dropped, stats, agg_vars,
                   path_vars, seg_vars, inst_vars>>

\* the scan step that, when it breaks, also writes the new node's page into
\* the chunk finalized before
ScanNodeRevisingLast ==
    /\ pc = "scan"
    /\ scan_idx <= Len(all_nodes)
    /\ LET node == all_nodes[scan_idx]
           b == should_break(current_chunk, node, avg_height)
           revised == IF Len(chunks) > 0
                      THEN [chunks EXCEPT ![Len(chunks)].source_pages =
                                @ \cup {node.source_page},
                                          ![Len(chunks)].node_count = @ + 1]
                      ELSE chunks
           flushed == IF Len(current_nodes) > 0
                      THEN Append(revised, merge_chunk(current_nodes)) ELSE revised
       IN  IF b.brk
           THEN /\ chunks' = flushed
                /\ log_lines' =
                     IF Len(current_nodes) > 0
                     THEN Append(log_lines,
                            LogEntry("chunk_created", 0, 0, <<>>, Len(flushed), 0, b.reason))
                     ELSE log_lines
                /\ current_nodes' = <<node>>
                /\ current_chunk' = [open |-> TRUE, type |-> "unknown", last_node |-> node]
           ELSE /\ current_nodes' = Append(current_nodes, node)
                /\ current_chunk' =
                     IF current_chunk.open
                     THEN [current_chunk EXCEPT !.last_node = node]
                     ELSE [open |-> TRUE, type |-> "", last_node |-> node]
                /\ UNCHANGED <<chunks, log_lines>>
    /\ scan_idx' = scan_idx + 1
    /\ UNCHANGED <<pc, pages, page_idx, all_nodes, total_dropped, avg_height, stats,
                   agg_vars, path_vars, seg_vars, inst_vars>>

\* lines 355-378: one node of the scan
ScanNode ==
    /\ pc = "scan"
    /\ scan_idx <= Len(all_nodes)
    /\ LET node == all_nodes[scan_idx]
           b == should_break(current_chunk, node, avg_height)
           flushed == IF Len(current_nodes) > 0
                      THEN Append(chunks, merge_chunk(current_nodes)) ELSE chunks
       IN  IF b.brk
           THEN /\ chunks' = flushed
                /\ log_lines' =
                     IF Len(current_nodes) > 0
                     THEN Append(log_lines,
                            LogEntry("chunk_created", 0, 0, <<>>, Len(flushed), 0, b.reason))
                     ELSE log_lines
                /\ current_nodes' = <<node>>
                /\ current_chunk' = [open |-> TRUE, type |-> "unknown", last_node |-> node]
           ELSE /\ current_nodes' = Append(current_nodes, node)
                /\ current_chunk' =
                     IF current_chunk.open
                     THEN [current_chunk EXCEPT !.last_node = node]
                     ELSE [open |-> TRUE, type |-> "", last_node |-> node]
                /\ UNCHANGED <<chunks, log_lines>>
    /\ scan_idx' = scan_idx + 1
    /\ UNCHANGED <<pc, pages, page_idx, all_nodes, total_dropped, avg_height, stats,
                   agg_vars, path_vars, seg_vars, inst_vars>>

\* lines 380-402: the last chunk flushed, the ids given, the stats computed;
\* the chunks then go to aggregate_sections (lines 571-576)
FinishScan ==
    /\ pc = "scan"
    /\ scan_idx > Len(all_nodes)
    /\ LET flushed == IF Len(current_nodes) > 0
                      THEN Append(chunks, merge_chunk(current_nodes)) ELSE chunks
           numbered == [i \in 1..Len(flushed) |-> [flushed[i] EXCEPT !.id = i]]
       IN  /\ chunks' = numbered
           /\ log_lines' =
                IF Len(current_nodes) > 0
                THEN Append(log_lines,
                       LogEntry("chunk_created", 0, 0, <<>>, Len(flushed), 0, ""))
                ELSE log_lines
           /\ stats' = [total_pages |-> Len(pages),
                        total_nodes |-> Len(all_nodes),
                        dropped_nodes |-> total_dropped,
                        total_chunks |-> Len(numbered),
                        heading |-> CountType(numbered, "heading"),
                        paragraph |-> CountType(numbered, "paragraph"),
                        list_item |-> CountType(numbered, "list_item")]
    /\ pc' = "aggregate"
    /\ agg_idx' = 1
    /\ current_section' = NoSection
    /\ sections' = <<>>
    /\ UNCHANGED <<pages, page_idx, all_nodes, total_dropped, avg_height, scan_idx,
                   current_chunk, current_nodes, path_vars, seg_vars, inst_vars>>


\* heading_chunk_id = None
NoId == -1
\* the heading of the section that has no heading chunk
PreambleHeading == <<"(", "U6587", "U6863", "U524D", "U8A00", ")">>

\* content_parts of _finalize_section for the content chunks (lines 507-511)
RECURSIVE SectionParts(_)
SectionParts(content_chunks) ==
    IF Len(content_chunks) = 0 THEN <<>>
    ELSE <<(IF content_chunks[1].type = "list_item" THEN <<"-", " ">> ELSE <<>>)
           \o Strip(content_chunks[1].content)>>
         \o SectionParts(Tail(content_chunks))

\* _finalize_section listing all_chunks where the code lists content_chunks
finalize_section_all_chunks(section_data) ==
    LET heading_chunk == section_data.heading_chunk
        content_chunks == section_data.content_chunks
        has == section_data.has_heading
        heading_text == IF has THEN heading_chunk.content ELSE PreambleHeading
        all_chunks == (IF has THEN <<heading_chunk>> ELSE <<>>) \o content_chunks
        types == {content_chunks[i].type : i \in 1..Len(content_chunks)}
    IN  [heading |-> heading_text,
         content |-> Join((IF has THEN <<<<"#", "#", " ">> \o heading_text>> ELSE <<>>)
                          \o SectionParts(content_chunks), <<"\n", "\n">>),
         source_pages |-> UNION {all_chunks[i].source_pages : i \in 1..Len(all_chunks)},
         chunk_count |-> Len(content_chunks),
         chunk_types |-> [t \in types |-> CountType(content_chunks, t)],
         heading_chunk_id |-> IF has THEN heading_chunk.id ELSE NoId,
         content_chunk_ids |-> [i \in 1..Len(all_chunks) |-> all_chunks[i].id]]

\* _finalize_section(section_data)
finalize_section(section_data) ==
    LET heading_chunk == section_data.heading_chunk
        content_chunks == section_data.content_chunks
        has == section_data.has_heading
        heading_text == IF has THEN heading_chunk.content ELSE PreambleHeading
        all_chunks == (IF has THEN <<heading_chunk>> ELSE <<>>) \o content_chunks
        types == {content_chunks[i].type : i \in 1..Len(content_chunks)}
    IN  [heading |-> heading_text,
         content |-> Join((IF has THEN <<<<"#", "#", " ">> \o heading_text>> ELSE <<>>)
                          \o SectionParts(content_chunks), <<"\n", "\n">>),
         source_pages |-> UNION {all_chunks[i].source_pages : i \in 1..Len(all_chunks)},
         chunk_count |-> Len(content_chunks),
         chunk_types |-> [t \in types |-> CountType(content_chunks, t)],
         heading_chunk_id |-> IF has THEN heading_chunk.id ELSE NoId,
         content_chunk_ids |-> [i \in 1..Len(content_chunks) |-> content_chunks[i].id]]

\* the loop step of aggregate_sections that opens the new section without
\* saving the one that was open
AggregateChunkDropsOpenSection ==
    /\ pc = "aggregate"
    /\ agg_idx <= Len(chunks)
    /\ LET chunk == chunks[agg_idx]
       IN  IF chunk.type = "heading"
           THEN /\ UNCHANGED sections
                /\ current_section' = [open |-> TRUE, has_heading |-> TRUE,
                                       heading_chunk |-> chunk, content_chunks |-> <<>>]
           ELSE /\ current_section' =
                     IF current_section.open
                     THEN [current_section EXCEPT
                             !.content_chunks = Append(@, chunk)]
                     ELSE [open |-> TRUE, has_heading |-> FALSE,
                           heading_chunk |-> NoChunk, content_chunks |-> <<chunk>>]
                /\ UNCHANGED sections
    /\ agg_idx' = agg_idx + 1
    /\ UNCHANGED <<clean_vars, path_vars, seg_vars, inst_vars>>

\* lines 451-470: one chunk of the loop of aggregate_sections
AggregateChunk ==
    /\ pc = "aggregate"
    /\ agg_idx <= Len(chunks)
    /\ LET chunk == chunks[agg_idx]
       IN  IF chunk.type = "heading"
           THEN /\ sections' = IF current_section.open
                               THEN Append(sections, finalize_section(current_section))
                               ELSE sections
                /\ current_section' = [open |-> TRUE, has_heading |-> TRUE,
                                       heading_chunk |-> chunk, content_chunks |-> <<>>]
           ELSE /\ current_section' =
                     IF current_section.open
                     THEN [current_section EXCEPT
                             !.content_chunks = Append(@, chunk)]
                     ELSE [open |-> TRUE, has_heading |-> FALSE,
                           heading_chunk |-> NoChunk, content_chunks |-> <<chunk>>]
                /\ UNCHANGED sections
    /\ agg_idx' = agg_idx + 1
    /\ UNCHANGED <<clean_vars, path_vars, seg_vars, inst_vars>>

\* the end of aggregate_sections returning without saving the open section
FinishAggregateDropsOpenSection ==
    /\ pc = "aggregate"
    /\ agg_idx > Len(chunks)
    /\ pc' = "done"
    /\ UNCHANGED <<sections, agg_idx, current_section, pages, page_idx, all_nodes,
                   total_dropped, log_lines, avg_height, scan_idx, current_chunk,
                   current_nodes, chunks, stats, path_vars, seg_vars, inst_vars>>

\* lines 472-477: the last section saved
FinishAggregate ==
    /\ pc = "aggregate"
    /\ agg_idx > Len(chunks)
    /\ sections' = IF current_section.open
                   THEN Append(sections, finalize_section(current_section))
                   ELSE sections
    /\ pc' = "done"
    /\ UNCHANGED <<agg_idx, current_section, pages, page_idx, all_nodes, total_dropped,
                   log_lines, avg_height, scan_idx, current_chunk, current_nodes,
                   chunks, stats, path_vars, seg_vars, inst_vars>>

----------------------------------------------------------------------------
(* Specifications                                                          *)

PathIdle ==
    /\ node_count = 0
    /\ block_counter = 0
    /\ current_path_stack = <<>>
    /\ documents = <<>>

SegIdle ==
    /\ min_length = 0
    /\ max_length = 0
    /\ seg_call = "none"
    /\ seg_input = <<>>
    /\ seg_output = <<>>

CleanIdle ==
    /\ pc = "idle"
    /\ pages = <<>>
    /\ page_idx = 0
    /\ all_nodes = <<>>
    /\ total_dropped = 0
    /\ log_lines = <<>>
    /\ avg_height = [sum |-> 0, n |-> 0]
    /\ scan_idx = 0
    /\ current_chunk = NoChunkOpen
    /\ current_nodes = <<>>
    /\ chunks = <<>>
    /\ stats = NoStats
    /\ AggIdle

\* one document only: nothing is parked
InstIdle ==
    /\ running = 0
    /\ parked = <<>>

\* text_cleaner.main: clean_document, then aggregate_sections on its chunks
Init == PathIdle /\ SegIdle /\ CleanInit /\ InstIdle
Next ==
    \/ LoadPage
    \/ StartScan
    \/ ScanNode
    \/ FinishScan
    \/ AggregateChunk
    \/ FinishAggregate
Spec == Init /\ [][Next]_vars

\* one process_pdf run of the PathEncoder
\* process_pdf alone: the cleaner and the segmenter variables stay idle
PathSpecInit == PathInit /\ SegIdle /\ CleanIdle /\ InstIdle
PathSpec == PathSpecInit /\ [][PathNext]_vars

----------------------------------------------------------------------------
(* The Segmenter called on its own                                         *)

\* the length of a text and of a sentence list
MaxTextLen == 4
MaxSentences == 3

\* a text is made of a letter, a sentence delimiter (U+3002, newline), a
\* secondary punctuation mark (the comma) and a blank
TextAlphabet == {"a", "U3002", ",", " ", "\n"}
Texts == UNION {[1..k -> TextAlphabet] : k \in 0..MaxTextLen}
\* the sentences handed to merge_short_sentences: empty, blank, and of one
\* to three letters
SentenceTexts == {<<>>, <<" ">>, <<"a">>, <<"a", "a">>, <<"a", "a", "a">>}
SentenceLists == UNION {[1..k -> SentenceTexts] : k \in 0..MaxSentences}

\* Segmenter(min_length, max_length), line 10
SegConfigs == {[min_length |-> 2, max_length |-> 3],
               [min_length |-> 4, max_length |-> 4],
               [min_length |-> 3, max_length |-> 2]}

SegInit ==
    /\ \E c \in SegConfigs : min_length = c.min_length /\ max_length = c.max_length
    /\ seg_call = "none"
    /\ seg_input = <<>>
    /\ seg_output = <<>>

CallSplitIntoSentences ==
    /\ seg_call = "none"
    /\ \E text \in Texts :
          /\ seg_input' = <<text>>
          /\ seg_output' = split_into_sentences(text)
    /\ seg_call' = "split_into_sentences"
    /\ UNCHANGED <<min_length, max_length, path_vars, clean_vars, agg_vars, inst_vars>>

CallMergeShortSentences ==
    /\ seg_call = "none"
    /\ \E sentences \in SentenceLists :
          /\ seg_input' = sentences
          /\ seg_output' = merge_short_sentences(sentences, min_length)
    /\ seg_call' = "merge_short_sentences"
    /\ UNCHANGED <<min_length, max_length, path_vars, clean_vars, agg_vars, inst_vars>>

CallSplitLongSegment ==
    /\ seg_call = "none"
    /\ \E text \in Texts :
          /\ seg_input' = <<text>>
          /\ seg_output' = split_long_segment(text, max_length)
    /\ seg_call' = "split_long_segment"
    /\ UNCHANGED <<min_length, max_length, path_vars, clean_vars, agg_vars, inst_vars>>

CallForceSplit ==
    /\ seg_call = "none"
    /\ \E text \in Texts :
          /\ seg_input' = <<text>>
          /\ seg_output' = force_split_at_punctuation(text, max_length)
    /\ seg_call' = "force_split_at_punctuation"
    /\ UNCHANGED <<min_length, max_length, path_vars, clean_vars, agg_vars, inst_vars>>

CallSegmentText ==
    /\ seg_call = "none"
    /\ \E text \in Texts :
          /\ seg_input' = <<text>>
          /\ seg_output' = segment_text(text, min_length, max_length)
    /\ seg_call' = "segment_text"
    /\ UNCHANGED <<min_length, max_length, path_vars, clean_vars, agg_vars, inst_vars>>

\* the caller takes the result; the Segmenter keeps no state between calls
SegReturn ==
    /\ seg_call # "none"
    /\ seg_call' = "none"
    /\ seg_input' = <<>>
    /\ seg_output' = <<>>
    /\ UNCHANGED <<min_length, max_length, path_vars, clean_vars, agg_vars, inst_vars>>

SegNext ==
    \/ CallSplitIntoSentences
    \/ CallMergeShortSentences
    \/ CallSplitLongSegment
    \/ CallForceSplit
    \/ CallSegmentText
    \/ SegReturn

SegSpecInit == PathIdle /\ SegInit /\ CleanIdle /\ InstIdle
SegSpec == SegSpecInit /\ [][SegNext]_vars

----------------------------------------------------------------------------
(* aggregate_sections called on any chunk list                             *)

\* the number of chunks of the list
MaxChunks == 4

ChunkTypes == {"heading", "paragraph", "list_item"}

\* a chunk of the given type as _merge_chunk builds it from one node of page 1
SampleChunk(id, type) ==
    [id |-> id,
     content |-> CASE type = "heading" -> <<"U7B2C", "U4E00", "U7AE0">>
                   [] type = "list_item" -> <<"-", " ", "U6587", "U3002">>
                   [] OTHER -> <<"U6587", "U3002">>,
     type |-> type,
     source_pages |-> {1},
     node_count |-> 1,
     members |-> <<id>>]

\* the chunk lists: any types, and pairwise distinct ids that either rise from
\* 1 in list order (as clean_document numbers them) or fall from MaxChunks
ChunkLists ==
    UNION {{[i \in 1..k |-> SampleChunk(ids[i], types[i])] :
                ids \in {[i \in 1..k |-> i], [i \in 1..k |-> MaxChunks + 1 - i]},
                types \in [1..k -> ChunkTypes]} : k \in 0..MaxChunks}

AggInit ==
    /\ pc = "aggregate"
    /\ chunks \in ChunkLists
    /\ pages = <<>>
    /\ page_idx = 0
    /\ all_nodes = <<>>
    /\ total_dropped = 0
    /\ log_lines = <<>>
    /\ avg_height = [sum |-> 0, n |-> 0]
    /\ scan_idx = 0
    /\ current_chunk = NoChunkOpen
    /\ current_nodes = <<>>
    /\ stats = NoStats
    /\ agg_idx = 1
    /\ current_section = NoSection
    /\ sections = <<>>

AggNext == AggregateChunk \/ FinishAggregate

AggSpecInit == PathIdle /\ SegIdle /\ AggInit /\ InstIdle
AggSpec == AggSpecInit /\ [][AggNext]_vars

----------------------------------------------------------------------------
(* Two documents, each with its own PathEncoder and TextCleaner, processed *)
(* in any interleaving                                                     *)

\* the number of nodes process_pdf emits for each of the two documents
MaxDocNodes == 2

\* the heading block of the two documents
DocHeading == <<"1", " ", "U6587">>

SampleWith(content) == CHOOSE n \in NodeSamples : n.content = content
\* the nodes of the page files of the two documents: a chapter heading, the
\* long line and a sentence on page 1; a chapter heading, a list item and a
\* paragraph of low confidence on page 2
DocInput(d) ==
    IF d = 1
    THEN <<SampleWith(<<"U7B2C", "U4E00", "U7AE0">>), SampleWith(LongLine),
           SampleWith(<<"U6587", "U3002">>)>>
    ELSE <<SampleWith(<<"U7B2C", "U4E8C", "U7AE0">>),
           SampleWith(<<"-", " ", "U6587", "U3002">>),
           SampleWith(<<"U5B57", "U3002">>)>>

\* PathEncoder.__init__ and TextCleaner.__init__: every attribute is set on
\* the instance; the locals of clean_document belong to the call
FreshInstance ==
    [node_count |-> 0, block_counter |-> 0, current_path_stack |-> <<>>,
     documents |-> <<>>,
     pc |-> "idle", pages |-> <<>>, page_idx |-> 0, all_nodes |-> <<>>,
     total_dropped |-> 0, log_lines |-> <<>>, avg_height |-> [sum |-> 0, n |-> 0],
     scan_idx |-> 0, current_chunk |-> NoChunkOpen, current_nodes |-> <<>>,
     chunks |-> <<>>, stats |-> NoStats,
     agg_idx |-> 0, current_section |-> NoSection, sections |-> <<>>]

\* the attributes and locals of the running document's instances
RunningInstance ==
    [node_count |-> node_count, block_counter |-> block_counter,
     current_path_stack |-> current_path_stack, documents |-> documents,
     pc |-> pc, pages |-> pages, page_idx |-> page_idx, all_nodes |-> all_nodes,
     total_dropped |-> total_dropped, log_lines |-> log_lines,
     avg_height |-> avg_height, scan_idx |-> scan_idx,
     current_chunk |-> current_chunk, current_nodes |-> current_nodes,
     chunks |-> chunks, stats |-> stats,
     agg_idx |-> agg_idx, current_section |-> current_section, sections |-> sections]

InterleavedInit ==
    /\ PathInit
    /\ SegIdle
    /\ CleanIdle
    /\ running = 1
    /\ parked = FreshInstance

\* one node of process_pdf for the running document (main.py, lines 225-279)
EncodeNode ==
    /\ pc = "idle"
    /\ Len(documents) < MaxDocNodes
    /\ \/ ParagraphSegment
       \/ HeadingBlock(DocHeading, AvgFontSize)

\* TextCleaner(...) and the call of clean_document on the page files of the
\* running document
StartClean ==
    /\ pc = "idle"
    /\ pc' = "load"
    /\ pages' = PageFiles(Numbered(DocInput(running)))
    /\ page_idx' = 1
    /\ all_nodes' = <<>>
    /\ total_dropped' = 0
    /\ log_lines' = <<>>
    /\ UNCHANGED <<avg_height, scan_idx, current_chunk, current_nodes, chunks, stats,
                   agg_vars, path_vars, seg_vars, inst_vars>>

\* the other document's instances run next as if every attribute were shared
\* but the documents list: only that list is exchanged
SwitchSharingAttributes ==
    /\ running' = 3 - running
    /\ parked' = RunningInstance
    /\ documents' = parked.documents
    /\ UNCHANGED <<node_count, block_counter, current_path_stack, clean_vars,
                   agg_vars, seg_vars>>

\* the other document's instances run next: each instance keeps its own
\* attributes (path_encoder.py, lines 12-14; text_cleaner.py, lines 74-79)
Switch ==
    /\ running' = 3 - running
    /\ parked' = RunningInstance
    /\ node_count' = parked.node_count
    /\ block_counter' = parked.block_counter
    /\ current_path_stack' = parked.current_path_stack
    /\ documents' = parked.documents
    /\ pc' = parked.pc
    /\ pages' = parked.pages
    /\ page_idx' = parked.page_idx
    /\ all_nodes' = parked.all_nodes
    /\ total_dropped' = parked.total_dropped
    /\ log_lines' = parked.log_lines
    /\ avg_height' = parked.avg_height
    /\ scan_idx' = parked.scan_idx
    /\ current_chunk' = parked.current_chunk
    /\ current_nodes' = parked.current_nodes
    /\ chunks' = parked.chunks
    /\ stats' = parked.stats
    /\ agg_idx' = parked.agg_idx
    /\ current_section' = parked.current_section
    /\ sections' = parked.sections
    /\ UNCHANGED seg_vars

InterleavedNext ==
    \/ EncodeNode
    \/ StartClean
    \/ LoadPage
    \/ StartScan
    \/ ScanNode
    \/ FinishScan
    \/ Switch

InterleavedSpec == InterleavedInit /\ [][InterleavedNext]_vars

----------------------------------------------------------------------------

(* clean_document on one page of list items and headings                   *)

\* the nodes of the page: a long list item with no end mark, two items that
\* end a sentence right below it, the long line, a chapter heading, and a
\* heading node whose content is empty
ListSamples ==
    { [content_type |-> "paragraph",
         content |-> <<"-", " ">> \o [i \in 1..20 |-> "U6587"], source_page |-> 1,
         bbox_kind |-> "dict", top |-> 50, left |-> 10, bottom |-> 60,
         has_conf |-> TRUE, conf |-> 100],
      [content_type |-> "paragraph", content |-> <<"-", " ", "U6587", "U3002">>, source_page |-> 1,
         bbox_kind |-> "dict", top |-> 60, left |-> 10, bottom |-> 70,
         has_conf |-> TRUE, conf |-> 100],
      [content_type |-> "paragraph", content |-> <<"1", ".", "U5B57", "U3002">>, source_page |-> 1,
         bbox_kind |-> "dict", top |-> 70, left |-> 10, bottom |-> 80,
         has_conf |-> TRUE, conf |-> 100],
      [content_type |-> "paragraph", content |-> LongLine, source_page |-> 1,
         bbox_kind |-> "dict", top |-> 40, left |-> 0, bottom |-> 50,
         has_conf |-> TRUE, conf |-> 100],
      [content_type |-> "heading", content |-> <<"U7B2C", "U4E00", "U7AE0">>, source_page |-> 1,
         bbox_kind |-> "dict", top |-> 0, left |-> 0, bottom |-> 10,
         has_conf |-> TRUE, conf |-> 100],
      [content_type |-> "heading", content |-> <<>>, source_page |-> 1,
         bbox_kind |-> "dict", top |-> 20, left |-> 0, bottom |-> 30,
         has_conf |-> TRUE, conf |-> 100] }

\* text_cleaner.main on a document of at most MaxCleanNodes such nodes
ListSpecInit ==
    /\ PathIdle /\ SegIdle /\ InstIdle /\ AggIdle
    /\ pc = "load"
    /\ \E doc \in UNION {[1..k -> ListSamples] : k \in 0..MaxCleanNodes} :
            pages = PageFiles(Numbered(doc))
    /\ page_idx = 1
    /\ all_nodes = <<>>
    /\ total_dropped = 0
    /\ log_lines = <<>>
    /\ avg_height = [sum |-> 0, n |-> 0]
    /\ scan_idx = 0
    /\ current_chunk = NoChunkOpen
    /\ current_nodes = <<>>
    /\ chunks = <<>>
    /\ stats = NoStats
ListSpec == ListSpecInit /\ [][Next]_vars

----------------------------------------------------------------------------

(* Properties of the PathEncoder (PathSpec)                                *)

\* C1: within one run of process_pdf no two emitted nodes receive the same
\* path string
C1_PathsUnique ==
    \A i, j \in 1..Len(documents) :
        i # j => documents[i].path # documents[j].path

\* the parts of a numbering that is dotted and numeric: n1.n2...nk
NumberingParts(numbering) == Split(numbering, ".")
DottedNumeric(numbering) ==
    /\ numbering # None
    /\ Len(NumberingParts(numbering)) >= 2
    /\ \A i \in 1..Len(NumberingParts(numbering)) : IsDigitStr(NumberingParts(numbering)[i])
\* n1...n(k-1)
NumberingPrefix(numbering) ==
    Join(SubSeq(NumberingParts(numbering), 1, Len(NumberingParts(numbering)) - 1), <<".">>)

\* C5: for a dotted numeric numbering n1...nk with k >= 2,
\* get_parent_path(build_path("n1...nk", k)) = build_path("n1...n(k-1)", k - 1):
\* every heading emitted with such a numbering at level k carries that parent
C5_ParentOfDotted ==
    \A i \in 1..Len(documents) :
        LET d == documents[i]
        IN  (/\ d.content_type = "heading"
             /\ DottedNumeric(d.numbering)
             /\ d.level = Len(NumberingParts(d.numbering)))
            => /\ d.path = build_path(d.numbering, d.level, <<>>, 0).path
               /\ d.parent_path =
                    build_path(NumberingPrefix(d.numbering), d.level - 1, <<>>, 0).path

\* C5 witness: the heading 1.2.3 was emitted at level 3 with parent 001.002
C5_Witness ==
    \E i \in 1..Len(documents) :
        /\ documents[i].numbering = <<"1", ".", "2", ".", "3">>
        /\ documents[i].level = 3
        /\ documents[i].parent_path = <<"0", "0", "1", ".", "0", "0", "2">>

\* a path that is a root-level auto block, blk.NNN
IsRootBlock(path) ==
    /\ Len(path) = 7
    /\ SubSeq(path, 1, 4) = <<"b", "l", "k", ".">>
    /\ IsDigitStr(SubSeq(path, 5, 7))
\* a path that ends in the auto-block suffix .blk.NNN
EndsInBlock(path) ==
    /\ Len(path) > 8
    /\ SubSeq(path, Len(path) - 7, Len(path) - 3) = BlkInfix
    /\ IsDigitStr(SubSeq(path, Len(path) - 2, Len(path)))
\* the parent the claim describes: P for P.blk.NNN, otherwise the path without
\* its last segment, None for the empty path, one segment or a root block
DescribedParent(path) ==
    IF Len(path) = 0 \/ IsRootBlock(path) THEN None
    ELSE IF EndsInBlock(path) THEN SubSeq(path, 1, Len(path) - 8)
    ELSE IF Len(Split(path, ".")) <= 1 THEN None
    ELSE Join(SubSeq(Split(path, "."), 1, Len(Split(path, ".")) - 1), <<".">>)

\* C6: the parent_path of every heading and paragraph node is the described
\* parent of its path: P for P.blk.NNN, the path without its last segment
\* otherwise, None when there is no parent
C6_ParentPath ==
    \A i \in 1..Len(documents) :
        documents[i].content_type \in {"heading", "paragraph"}
        => documents[i].parent_path = DescribedParent(documents[i].path)

----------------------------------------------------------------------------
(* Properties of clean_document (Spec)                                     *)

\* the scan is over: the chunks are final
Cleaned == pc \in {"aggregate", "done"}

ChunkContents == [i \in 1..Len(chunks) |-> chunks[i].content]
NodeContents == [i \in 1..Len(all_nodes) |-> all_nodes[i].content]
ChunkMembers == Concat([i \in 1..Len(chunks) |-> chunks[i].members])

\* C2: the contents of the chunks, concatenated in chunk order, are the
\* contents of the surviving nodes in their sorted order, up to whitespace:
\* nothing reordered, duplicated or omitted
C2_ChunksReproduceStream ==
    Cleaned => NoSpace(Concat(ChunkContents)) = NoSpace(Concat(NodeContents))

\* C2 witness: a cleaned document with two chunks, one of them merged from
\* two nodes
C2_Witness ==
    /\ Cleaned
    /\ Len(chunks) >= 2
    /\ \E i \in 1..Len(chunks) : chunks[i].node_count >= 2

RECURSIVE SumNodeCount(_)
SumNodeCount(cs) == IF Len(cs) = 0 THEN 0 ELSE cs[1].node_count + SumNodeCount(Tail(cs))

\* the reading order: page, then top, then left
ReadingLeq(a, b) ==
    \/ a.source_page < b.source_page
    \/ (a.source_page = b.source_page /\ KeyLeq(a, b))

\* C3: every surviving node is a member of exactly one chunk: the member runs
\* of the chunks, in chunk order, are the sorted node stream; the node_counts
\* add up to stats.total_nodes; and the stream is in (page, top, left) order
C3_EveryNodeInOneChunk ==
    Cleaned =>
        /\ ChunkMembers = [i \in 1..Len(all_nodes) |-> all_nodes[i].nid]
        /\ \A i, j \in 1..Len(all_nodes) : i # j => all_nodes[i].nid # all_nodes[j].nid
        /\ \A i \in 1..Len(chunks) : chunks[i].node_count = Len(chunks[i].members)
        /\ SumNodeCount(chunks) = stats.total_nodes
        /\ stats.total_nodes = Len(all_nodes)
        /\ \A i, j \in 1..Len(all_nodes) : i < j => ReadingLeq(all_nodes[i], all_nodes[j])

\* C3 witness: a cleaned document whose page file listed two nodes out of
\* reading order, now members of two chunks
C3_Witness ==
    /\ Cleaned
    /\ Len(chunks) >= 2
    /\ \E i, j \in 1..Len(all_nodes) : i < j /\ all_nodes[i].nid > all_nodes[j].nid

\* the nodes of the page files already loaded
LoadedPages == 1..Min(page_idx - 1, Len(pages))
\* a node whose ocr_confidence is below the threshold
LowConfidence(node) == node.has_conf /\ node.conf < confidence_threshold
\* the node is in the stream or in a chunk
Surviving(node) ==
    \/ \E i \in 1..Len(all_nodes) : all_nodes[i].nid = node.nid
    \/ \E i \in 1..Len(chunks) : \E k \in 1..Len(chunks[i].members) :
            chunks[i].members[k] = node.nid
\* the audit log holds the line of the node's drop
DropLogged(node, page) ==
    \E i \in 1..Len(log_lines) :
        /\ log_lines[i].kind = "drop_low_confidence"
        /\ log_lines[i].page = page
        /\ log_lines[i].conf = node.conf
        /\ log_lines[i].text = Take(node.content, 30)

----------------------------------------------------------------------------
(* Properties of aggregate_sections (AggSpec)                              *)

\* the chunk ids a section holds: its heading chunk's, then its content chunks'
SectionIds(section) ==
    (IF section.heading_chunk_id # NoId THEN <<section.heading_chunk_id>> ELSE <<>>)
    \o section.content_chunk_ids
AllSectionIds == Concat([i \in 1..Len(sections) |-> SectionIds(sections[i])])
Occurrences(ids, id) == Cardinality({i \in 1..Len(ids) : ids[i] = id})

\* C4: aggregate_sections places every chunk in exactly one section: each
\* input chunk id occurs exactly once among the sections' heading_chunk_id
\* and content_chunk_ids, and no other id occurs
C4_EveryChunkInOneSection ==
    pc = "done" =>
        /\ \A i \in 1..Len(chunks) : Occurrences(AllSectionIds, chunks[i].id) = 1
        /\ Len(AllSectionIds) = Len(chunks)

\* C4 witness: the chunks went to a section without a heading and to a
\* section with a heading and content
C4_Witness ==
    /\ pc = "done"
    /\ \E i, j \in 1..Len(sections) :
            /\ sections[i].heading_chunk_id = NoId
            /\ sections[j].heading_chunk_id # NoId
            /\ sections[j].chunk_count >= 1

----------------------------------------------------------------------------
(* Properties of the Segmenter (SegSpec)                                   *)

HasPunctuation(text) == \E i \in 1..Len(text) : text[i] \in Punctuations

\* the input holds a sentence longer than max_length with no secondary
\* punctuation mark in it
AtomicSentence(text) ==
    \E i \in 1..Len(split_into_sentences(text)) :
        /\ Len(split_into_sentences(text)[i]) > max_length
        /\ ~HasPunctuation(split_into_sentences(text)[i])

\* C7: split_long_segment returns no segment longer than max_length, unless
\* the input holds a sentence longer than max_length that has no secondary
\* punctuation mark
C7_SegmentsWithinMax ==
    seg_call = "split_long_segment" /\ ~AtomicSentence(seg_input[1])
    => \A i \in 1..Len(seg_output) : Len(seg_output[i]) <= max_length

\* C8 as stated: segment_text on a text shorter than min_length returns
\* exactly one segment, the trimmed input
C8_ShortTextOneSegment ==
    seg_call = "segment_text" /\ Len(seg_input[1]) < min_length
    => seg_output = <<Strip(seg_input[1])>>

HasWhitespace(text) == \E i \in 1..Len(text) : text[i] \in Whitespace

\* C8 amended: with min_length <= max_length, segment_text on a text shorter
\* than min_length returns no segment when the text is blank, and otherwise
\* exactly one segment, which holds the non-whitespace characters of the
\* input in order and is the trimmed input when that has no whitespace in it
C8_ShortTextOneSegmentUpToWhitespace ==
    seg_call = "segment_text" /\ Len(seg_input[1]) < min_length /\ min_length <= max_length
    => IF Len(Strip(seg_input[1])) = 0
       THEN seg_output = <<>>
       ELSE /\ Len(seg_output) = 1
            /\ NoSpace(seg_output[1]) = NoSpace(seg_input[1])
            /\ ~HasWhitespace(Strip(seg_input[1])) => seg_output[1] = Strip(seg_input[1])

\* C8 witness: a short text of two sentences came back as one segment
C8_Witness ==
    /\ seg_call = "segment_text"
    /\ seg_input = << <<"a", "U3002", "a">> >>
    /\ Len(seg_input[1]) < min_length
    /\ min_length <= max_length
    /\ seg_output = << <<"a", "U3002", "a">> >>

RECURSIVE NonBlank(_)
NonBlank(sentences) ==
    IF Len(sentences) = 0 THEN <<>>
    ELSE (IF Len(Strip(sentences[1])) > 0 THEN <<sentences[1]>> ELSE <<>>)
         \o NonBlank(Tail(sentences))

\* C9: every unit merge_short_sentences returns, except possibly the last,
\* has length >= min_length, and the units concatenated in order are the
\* non-blank input sentences concatenated in order
C9_MergedUnitsLongEnough ==
    seg_call = "merge_short_sentences"
    => /\ \A i \in 1..(Len(seg_output) - 1) : Len(seg_output[i]) >= min_length
       /\ Concat(seg_output) = Concat(NonBlank(seg_input))

\* C9 witness: three sentences, one of them blank, merged into two units,
\* the last one shorter than min_length
C9_Witness ==
    /\ seg_call = "merge_short_sentences"
    /\ seg_input = << <<"a", "a">>, <<" ">>, <<"a">> >>
    /\ seg_output = << <<"a", "a">>, <<"a">> >>
    /\ Len(seg_output[2]) < min_length

----------------------------------------------------------------------------
(* Properties of detect_heading_level and build_path (PathSpec)            *)

\* the prefixes of text of the form N(.N)* that a separator follows
DottedDigits(s) == \A i \in 1..Len(Split(s, ".")) : IsDigitStr(Split(s, ".")[i])
SeparatedPrefixes(text) ==
    {e \in 1..(Len(text) - 1) :
        /\ DottedDigits(SubSeq(text, 1, e))
        /\ text[e + 1] \in NumberingSeps}
\* the longest of them: the numbering the text starts with, None without one
LeadingNumbering(text) ==
    IF SeparatedPrefixes(text) = {} THEN None
    ELSE SubSeq(text, 1,
                CHOOSE e \in SeparatedPrefixes(text) :
                    \A f \in SeparatedPrefixes(text) : f <= e)
DotCount(numbering) == Cardinality({i \in 1..Len(numbering) : numbering[i] = "."})
\* the numbering with every component written in at least three digits
ZeroPadded(numbering) ==
    LET parts == Split(numbering, ".")
    IN  Join([i \in 1..Len(parts) |-> Fmt03(IntOf(parts[i]))], <<".">>)

\* every text and font size of the model: detect_heading_level returns the
\* leading numbering and its dot count + 1
DetectedByPrefix ==
    \A raw \in HeadingTexts, font_size \in FontSizes :
        LET n == LeadingNumbering(Strip(raw))
        IN  n # None =>
              Classified[raw, font_size].detected =
                  [numbering |-> n, level |-> DotCount(n) + 1]

\* C14: a text that starts with N(.N)* and a separator is detected as (that
\* numbering, dot count + 1) whatever its font size and whatever the later
\* patterns, and the heading node built from it has the zero-padded dotted
\* path
C14_DottedPrefixFirst ==
    /\ DetectedByPrefix
    /\ \A i \in 1..Len(documents) :
          LET n == LeadingNumbering(documents[i].content)
          IN  (documents[i].content_type = "heading" /\ n # None) =>
                /\ documents[i].numbering = n
                /\ documents[i].level = DotCount(n) + 1
                /\ documents[i].path = ZeroPadded(n)

\* the heading "1.1 <text>" detected as ("1.1", 2) with path 001.001, and a
\* heading whose numbering is cut at a dot that no digit run follows
C14_Witness ==
    /\ \E i \in 1..Len(documents) :
          /\ documents[i].content = <<"1", ".", "1", " ", "U6587">>
          /\ documents[i].numbering = <<"1", ".", "1">>
          /\ documents[i].level = 2
          /\ documents[i].path = <<"0", "0", "1", ".", "0", "0", "1">>
    /\ \E i \in 1..Len(documents) :
          /\ documents[i].content = <<"1", "2", ".", "1", " ", "U6587">>
          /\ documents[i].path = <<"0", "1", "2", ".", "0", "0", "1">>
    /\ Classified[<<"1", ".", "1", " ", "U6587">>, 15].detected.level = 2

----------------------------------------------------------------------------

\* the components of a numbering as the path should show them: a digit
\* string in at least three digits, anything else as it is
PassThroughParts(numbering) ==
    LET parts == Split(numbering, ".")
    IN  [i \in 1..Len(parts) |->
            IF IsDigitStr(parts[i]) THEN Fmt03(IntOf(parts[i])) ELSE parts[i]]

\* C17: the path build_path returns for a numbering with a level is the
\* numbering's components joined with ".", the integer ones zero-padded to
\* three digits and the non-numeric ones unchanged
C17_NonNumericPassThrough ==
    \A i \in 1..Len(documents) :
        (/\ documents[i].content_type = "heading"
         /\ TruthyStr(documents[i].numbering)
         /\ documents[i].level # NoLevel) =>
            documents[i].path = Join(PassThroughParts(documents[i].numbering), <<".">>)

----------------------------------------------------------------------------

\* C18: every path emitted in a run (one per node, by build_path or by
\* add_block_path) is followed by one increment of the node counter: the
\* counter equals the number of paths emitted so far, and it only ever
\* grows, by one
C18_NodeCountCountsPaths ==
    /\ [](node_count = Len(documents))
    /\ [][node_count' = node_count + 1 /\ Len(documents') = Len(documents) + 1]_vars

\* three nodes counted, one with a path from build_path and one with a path
\* from add_block_path
C18_Witness ==
    /\ node_count = 3
    /\ Len(documents) = 3
    /\ \E i \in 1..3 : documents[i].level # NoLevel
    /\ \E i \in 1..3 : Contains(documents[i].path, BlkSeg)

----------------------------------------------------------------------------

\* the node's path was asked of add_block_path (main.py, lines 178, 202, 238
\* and 262): every node but a heading with a numbering
ViaAddBlockPath(d) == d.content_type # "heading" \/ ~TruthyStr(d.numbering)
\* the node's path is an automatic one: asked of add_block_path, or of
\* build_path for a heading without a number (numbering "heading", no level)
AutoPath(d) == ViaAddBlockPath(d) \/ d.numbering = HeadingTag \/ d.level = NoLevel
\* the last numbered heading before node i, 0 when there is none
LastNumbered(i) ==
    IF \E j \in 1..(i - 1) : ~AutoPath(documents[j])
    THEN CHOOSE j \in 1..(i - 1) :
            /\ ~AutoPath(documents[j])
            /\ \A h \in (j + 1)..(i - 1) : AutoPath(documents[h])
    ELSE 0
\* the block path number k under the heading at h, at the root when h = 0
BlockPathUnder(h, k) ==
    (IF h = 0 THEN BlkSeg \o <<".">> ELSE documents[h].path \o BlkInfix) \o Fmt03(k)

----------------------------------------------------------------------------

(* Properties of aggregate_sections: the sections against the chunk list   *)

\* the positions of the heading chunks, and the positions at which a section
\* starts: every heading, and 0 for the chunks that precede the first heading
HeadingPositions == {i \in 1..Len(chunks) : chunks[i].type = "heading"}
SectionStarts ==
    HeadingPositions \cup
    (IF Len(chunks) > 0 /\ chunks[1].type # "heading" THEN {0} ELSE {})
\* the k-th section start in list order
StartOf(k) ==
    CHOOSE s \in SectionStarts : Cardinality({t \in SectionStarts : t < s}) = k - 1
\* the position of the next heading after position s, or the end of the list
NextHeading(s) ==
    IF \E h \in HeadingPositions : h > s
    THEN CHOOSE h \in HeadingPositions :
            h > s /\ \A g \in HeadingPositions : g > s => h <= g
    ELSE Len(chunks) + 1
\* the ids of the chunks strictly between position s and the next heading
IdsBetween(s) == [j \in 1..(NextHeading(s) - s - 1) |-> chunks[s + j].id]

\* C11: aggregate_sections returns one section per heading chunk, plus one
\* when the first chunk is not a heading; the content chunks of each section
\* are exactly the non-heading chunks between its heading and the next
\* heading, in order
C11_SectionsFollowHeadings ==
    pc = "done" =>
        /\ Len(sections) = Cardinality(SectionStarts)
        /\ \A k \in 1..Len(sections) :
              LET s == StartOf(k)
              IN  /\ sections[k].content_chunk_ids = IdsBetween(s)
                  /\ sections[k].chunk_count = Len(IdsBetween(s))
                  /\ sections[k].heading_chunk_id =
                        IF s = 0 THEN NoId ELSE chunks[s].id

\* heading, paragraph, paragraph, heading: two sections, the first with two
\* content chunks
C11_Witness ==
    /\ pc = "done"
    /\ Len(chunks) = 4
    /\ [i \in 1..4 |-> chunks[i].type] =
          <<"heading", "paragraph", "paragraph", "heading">>
    /\ Len(sections) = 2
    /\ sections[1].chunk_count = 2
    /\ sections[2].chunk_count = 0

\* the section that covers a whole chunk list without a heading chunk
PlaceholderSection(section) ==
    /\ section.heading = PreambleHeading
    /\ section.heading_chunk_id = NoId
    /\ section.content_chunk_ids = [i \in 1..Len(chunks) |-> chunks[i].id]

\* C12 as stated: a chunk list without a heading chunk gives exactly one
\* section, with the placeholder heading, no heading chunk id, and all the
\* chunk ids in order
C12_NoHeadingOneSection ==
    (pc = "done" /\ HeadingPositions = {}) =>
        /\ Len(sections) = 1
        /\ PlaceholderSection(sections[1])

\* C12: a non-empty chunk list without a heading chunk gives exactly one
\* section, with the placeholder heading, no heading chunk id, and all the
\* chunk ids in order; the empty chunk list gives no section
C12_NoHeadingOneSectionUnlessEmpty ==
    (pc = "done" /\ HeadingPositions = {}) =>
        IF Len(chunks) = 0
        THEN sections = <<>>
        ELSE /\ Len(sections) = 1
             /\ PlaceholderSection(sections[1])

C12_Witness ==
    /\ pc = "done"
    /\ HeadingPositions = {}
    /\ Len(chunks) >= 2
    /\ Len(sections) = 1
    /\ PlaceholderSection(sections[1])
    /\ Len(sections[1].content_chunk_ids) = Len(chunks)

----------------------------------------------------------------------------
(* Properties of clean_document followed by aggregate_sections (Spec)      *)

\* the heading nodes of a page file
HeadingNodes(page) == {i \in 1..Len(page) : page[i].content_type = "heading"}
\* a document of exactly three page files, each holding one heading node
ThreePagesOneHeadingEach ==
    /\ Len(pages) = 3
    /\ \A p \in 1..3 : Cardinality(HeadingNodes(pages[p])) = 1

HeadingSignal(node) == is_heading_node(node, avg_height).is
ListSignal(node) == is_list_item(node).is
GapSignal(last, node) ==
    node.bbox_top - (last.bbox_top + last.bbox_height) >= min_gap_threshold
SentenceEndSignal(last, node) ==
    /\ Len(Strip(last.content)) > 0
    /\ EndsWithMark(Strip(last.content))
    /\ ~StartsWithAny(Strip(node.content), ContinuationPrefixes)
\* the reason of the signal of highest priority that holds, "" when none does
FirstSignal(last, node) ==
    IF HeadingSignal(node)
    THEN "heading(" \o is_heading_node(node, avg_height).reason \o ")"
    ELSE IF ListSignal(node) THEN "list_start"
    ELSE IF GapSignal(last, node) THEN "large_gap"
    ELSE IF SentenceEndSignal(last, node) THEN "sentence_end"
    ELSE ""
\* what the scan does with the node at scan_idx: without an open chunk, or
\* without a signal, the node joins the open nodes and nothing is flushed;
\* otherwise the open nodes are flushed for the reason of the first signal
ScanFollowsFirstSignal ==
    LET node == all_nodes[scan_idx]
        reason == FirstSignal(current_chunk.last_node, node)
    IN  IF ~current_chunk.open \/ reason = ""
        THEN /\ chunks' = chunks
             /\ log_lines' = log_lines
             /\ current_nodes' = Append(current_nodes, node)
             /\ current_chunk'.type = current_chunk.type
        ELSE /\ Len(chunks') = Len(chunks) + 1
             /\ current_nodes' = <<node>>
             /\ Len(log_lines') = Len(log_lines) + 1
             /\ log_lines'[Len(log_lines')].kind = "chunk_created"
             /\ log_lines'[Len(log_lines')].reason = reason

BlankNids ==
    UNION {{pages[p][i].nid : i \in {j \in 1..Len(pages[p]) :
                                        Len(Strip(pages[p][j].content)) = 0}} :
              p \in 1..Len(pages)}
\* the nodes clean_document kept that are not blank
NonBlankKept == {i \in 1..Len(all_nodes) : all_nodes[i].nid \notin BlankNids}

\* C16: a node with empty or whitespace-only content is skipped: no chunk
\* has it as a member or counts it in node_count, the stats' total_nodes
\* does not count it, and no chunk has empty content
C16_BlankNodesSkipped ==
    Cleaned =>
        /\ \A c \in 1..Len(chunks) :
              /\ \A m \in 1..Len(chunks[c].members) :
                    chunks[c].members[m] \notin BlankNids
              /\ chunks[c].node_count =
                    Cardinality({m \in 1..Len(chunks[c].members) :
                                    chunks[c].members[m] \notin BlankNids})
              /\ Len(chunks[c].content) > 0
        /\ stats.total_nodes = Cardinality(NonBlankKept)

----------------------------------------------------------------------------
(* Properties of two documents processed in turn (InterleavedSpec)         *)

\* process_pdf alone on a fresh PathEncoder, for the nodes of a document:
\* the paths, and the encoder's stack and block counter at the end
RECURSIVE EncodeAlone(_, _, _, _)
EncodeAlone(docs, paths, stack, counter) ==
    IF Len(docs) = 0
    THEN [paths |-> paths, stack |-> stack, block_counter |-> counter]
    ELSE LET d == docs[1]
             numbered == d.content_type = "heading" /\ TruthyStr(d.numbering)
             b == IF numbered
                  THEN build_path(d.numbering, d.level, stack, counter)
                  ELSE add_block_path(stack, counter)
             reset == numbered /\ TruthyLevel(d.level)
         IN  EncodeAlone(Tail(docs), Append(paths, b.path),
                         IF reset THEN reset_for_new_section(d.level, b.stack)
                         ELSE b.stack,
                         IF reset THEN 0 ELSE b.block_counter)

\* the scan of clean_document alone: the chunks of a node list
RECURSIVE ScanAlone(_, _, _, _, _)
ScanAlone(nodes, cur, open_nodes, done, avg) ==
    IF Len(nodes) = 0
    THEN (IF Len(open_nodes) > 0 THEN Append(done, merge_chunk(open_nodes)) ELSE done)
    ELSE LET node == nodes[1]
             b == should_break(cur, node, avg)
         IN  IF b.brk
             THEN ScanAlone(Tail(nodes),
                            [open |-> TRUE, type |-> "unknown", last_node |-> node],
                            <<node>>,
                            IF Len(open_nodes) > 0
                            THEN Append(done, merge_chunk(open_nodes)) ELSE done,
                            avg)
             ELSE ScanAlone(Tail(nodes),
                            IF cur.open THEN [cur EXCEPT !.last_node = node]
                            ELSE [open |-> TRUE, type |-> "", last_node |-> node],
                            Append(open_nodes, node), done, avg)

\* clean_document alone on the page files of document d: the nodes kept, the
\* number of nodes dropped and the chunks
CleanAlone(d) ==
    LET files == PageFiles(Numbered(DocInput(d)))
        nodes == Concat([p \in 1..Len(files) |-> load_page_nodes(files[p], p).valid])
        raw == Cardinality({i \in 1..Len(DocInput(d)) :
                               DocInput(d)[i].content_type # "page_raw_text"})
        avg == IF Len(nodes) > 0
               THEN [sum |-> SumHeights(nodes), n |-> Len(nodes)]
               ELSE [sum |-> DefaultHeight, n |-> 1]
        found == ScanAlone(nodes, NoChunkOpen, <<>>, <<>>, avg)
    IN  [all_nodes |-> nodes,
         dropped |-> raw - Len(nodes),
         chunks |-> [i \in 1..Len(found) |-> [found[i] EXCEPT !.id = i]]]

\* the two documents cleaned alone
CleanedAlone == [d \in {1, 2} |-> CleanAlone(d)]

LogCount(log, kind) == Cardinality({i \in 1..Len(log) : log[i].kind = kind})

\* the instances of document d hold what they hold when d is processed
\* alone: the node counter, the paths, the path stack and the block counter
\* of the encoder; the nodes loaded so far, the chunks flushed so far and the
\* log of the cleaner, and at the end of clean_document its chunks and stats
AsAlone(s, d) ==
    LET enc == EncodeAlone(s.documents, <<>>, <<>>, 0)
        cln == CleanedAlone[d]
    IN  /\ s.node_count = Len(s.documents)
        /\ [i \in 1..Len(s.documents) |-> s.documents[i].path] = enc.paths
        /\ s.current_path_stack = enc.stack
        /\ s.block_counter = enc.block_counter
        /\ s.pc = "idle" => s.log_lines = <<>> /\ s.chunks = <<>>
        /\ s.pc # "idle" =>
              /\ s.all_nodes = SubSeq(cln.all_nodes, 1, Len(s.all_nodes))
              /\ Len(s.chunks) <= Len(cln.chunks)
              /\ \A i \in 1..Len(s.chunks) :
                    [s.chunks[i] EXCEPT !.id = i] = cln.chunks[i]
              /\ LogCount(s.log_lines, "chunk_created") = Len(s.chunks)
              /\ LogCount(s.log_lines, "drop_low_confidence") = s.total_dropped
        /\ s.pc = "aggregate" =>
              /\ s.all_nodes = cln.all_nodes
              /\ s.chunks = cln.chunks
              /\ s.total_dropped = cln.dropped
              /\ s.stats.total_nodes = Len(cln.all_nodes)
              /\ s.stats.total_chunks = Len(cln.chunks)

\* C19: whatever the interleaving of the two documents' operations, each
\* document's PathEncoder and TextCleaner hold exactly the paths, counters,
\* chunks and log of that document processed alone
C19_InstancesIndependent ==
    /\ AsAlone(RunningInstance, running)
    /\ AsAlone(parked, 3 - running)

\* both documents are in the middle of their scan with an open chunk, after
\* both encoders have emitted a numbered heading and a block
C19_Witness ==
    /\ pc = "scan" /\ Len(current_nodes) > 0 /\ Len(chunks) > 0
    /\ parked.pc = "scan" /\ Len(parked.current_nodes) > 0
    /\ Len(documents) = 2 /\ block_counter = 1 /\ Len(current_path_stack) = 1
    /\ Len(parked.documents) = 2 /\ parked.block_counter = 1

----------------------------------------------------------------------------
(* Properties of the path stack (PathSpec)                                 *)

\* C21: after build_path for a heading detected at level L the path stack
\* has exactly L components, one for each level 1..L, and it keeps them
\* until the next numbered heading
C21_StackDepthIsLevel ==
    LET h == LastNumbered(Len(documents) + 1)
    IN  h # 0 => Len(current_path_stack) = documents[h].level

----------------------------------------------------------------------------
(* Properties of the list-start signal (ListSpec)                          *)

\* the chunk that has the i-th surviving node as a member
ChunkOf(i) ==
    CHOOSE c \in 1..Len(chunks) :
        \E m \in 1..Len(chunks[c].members) : chunks[c].members[m] = all_nodes[i].nid
\* the first member of the chunk of the i-th surviving node
FirstMember(i) ==
    all_nodes[CHOOSE j \in 1..Len(all_nodes) :
                all_nodes[j].nid = chunks[ChunkOf(i)].members[1]]
\* the i-th surviving node is a list item that follows a chunk opened by a
\* list item, with no heading, large-gap or sentence-end signal
ListItemContinues(i) ==
    /\ ListSignal(FirstMember(i - 1))
    /\ ListSignal(all_nodes[i])
    /\ ~HeadingSignal(all_nodes[i])
    /\ ~GapSignal(all_nodes[i - 1], all_nodes[i])
    /\ ~SentenceEndSignal(all_nodes[i - 1], all_nodes[i])

\* C22: a list item that follows an open chunk whose first member is a list
\* item, with no heading, large-gap or sentence-end signal, is appended to
\* that chunk
C22_ListItemJoinsListChunk ==
    Cleaned =>
        \A i \in 2..Len(all_nodes) :
            ListItemContinues(i) => ChunkOf(i) = ChunkOf(i - 1)

----------------------------------------------------------------------------
(* Properties of the forced split (SegSpec)                                *)

\* the text is one sentence for split_into_sentences
SingleSentence(text) == split_into_sentences(text) = <<text>>

\* C23: split_long_segment on a single sentence longer than max_length
\* returns parts that concatenate to the sentence, none longer than
\* max_length, each but the last ending at a secondary punctuation mark or,
\* when it holds no such mark, cut at exactly max_length characters
C23_ForceSplitWithinLimit ==
    (/\ seg_call = "split_long_segment"
     /\ SingleSentence(seg_input[1])
     /\ Len(seg_input[1]) > max_length) =>
        /\ Concat(seg_output) = seg_input[1]
        /\ \A i \in 1..Len(seg_output) : Len(seg_output[i]) <= max_length
        /\ \A i \in 1..(Len(seg_output) - 1) :
              \/ seg_output[i][Len(seg_output[i])] \in Punctuations
              \/ (~HasPunctuation(seg_output[i]) /\ Len(seg_output[i]) = max_length)

----------------------------------------------------------------------------
(* Properties of the enumeration and appendix patterns (PathSpec)          *)

\* the text begins with a letter or a Chinese numeral between parentheses
ParenthesizedEnumeration(text) ==
    /\ Len(text) >= 3
    /\ text[1] \in OpenParens
    /\ IsLetter(text[2]) \/ text[2] \in ChineseNumerals
    /\ text[3] \in CloseParens
\* a pattern of higher priority matches the text
HigherPattern(text) ==
    \/ pattern1(text) # None
    \/ pattern2_matches(text)
    \/ pattern3_result(text).numbering # None

\* C24: a heading of at most 200 characters that begins with a parenthesized
\* letter or Chinese numeral, and matches no pattern of higher priority, is
\* detected with a numbering and the level 3
C24_EnumerationIsLevel3 ==
    \A i \in 1..Len(documents) :
        (/\ documents[i].content_type = "heading"
         /\ Len(documents[i].content) <= MaxHeadingTextLen
         /\ ParenthesizedEnumeration(documents[i].content)
         /\ ~HigherPattern(documents[i].content)) =>
            /\ TruthyStr(documents[i].numbering)
            /\ documents[i].level = 3

AppendixPrefix == <<"U9644", "U5F55">>
\* the end of the appendix label of the text: the digit string or the single
\* letter that follows the appendix prefix (0 when the text has no such label
\* or the label runs into the title)
AppendixLabelEnd(text) ==
    LET e == IF Len(text) >= 3 /\ IsDigit(text[3]) THEN DigitRunEnd(text, 3)
             ELSE IF Len(text) >= 3 /\ IsLetter(text[3]) THEN 3
             ELSE 0
    IN  IF StartsWith(text, AppendixPrefix) /\ e # 0
           /\ (e = Len(text) \/ text[e + 1] \in Whitespace)
        THEN e ELSE 0
\* the index of the label: the value of the digit string, A -> 1, B -> 2, ...
AppendixIndex(text) ==
    IF IsDigit(text[3]) THEN IntOf(SubSeq(text, 3, AppendixLabelEnd(text)))
    ELSE Ord(Upper(text[3])) - 64

\* C25: a heading that starts with the appendix prefix and a digit string or
\* a single letter, with or without a title after it, is detected at level 1
\* with the numbering base offset + appendix index
C25_AppendixNumbering ==
    \A i \in 1..Len(documents) :
        (/\ documents[i].content_type = "heading"
         /\ AppendixLabelEnd(documents[i].content) # 0) =>
            /\ documents[i].level = 1
            /\ documents[i].numbering =
                  StrOf(AppendixBase + AppendixIndex(documents[i].content))

----------------------------------------------------------------------------
(* Properties of the loaded nodes (Spec)                                   *)

\* the node has no usable bbox or no ocr_confidence, and nothing else makes
\* _load_page_nodes leave it out
LacksFields(node) ==
    /\ node.bbox_kind # "dict" \/ ~node.has_conf
    /\ node.content_type # "page_raw_text"
    /\ ~LowConfidence(node)
    /\ footer_pattern(Strip(node.content)) = 0

\* C26: a node without bbox or without confidence is kept, with top 0 and
\* left 0 and a height of 10 units for the missing bbox
C26_DefaultsForMissingFields ==
    \A p \in LoadedPages : \A k \in 1..Len(pages[p]) :
        LacksFields(pages[p][k]) =>
            \E i \in 1..Len(all_nodes) :
                /\ all_nodes[i].nid = pages[p][k].nid
                /\ pages[p][k].bbox_kind # "dict" =>
                      /\ all_nodes[i].bbox_top = 0
                      /\ all_nodes[i].bbox_left = 0
                      /\ all_nodes[i].bbox_height = DefaultHeight

----------------------------------------------------------------------------
(* Properties of the scan order (Spec)                                     *)

\* a chunk without the id clean_document gives it at the end
Unnumbered(chunk) == [chunk EXCEPT !.id = 0]
\* the chunks of the nodes scanned so far, the open one included, computed
\* from those nodes and the average height alone
ChunksOfPrefix ==
    ScanAlone(SubSeq(all_nodes, 1, scan_idx - 1), NoChunkOpen, <<>>, <<>>, avg_height)
\* the chunks finalized so far and the open nodes merged
ChunksSoFar ==
    chunks \o (IF Len(current_nodes) > 0 THEN <<merge_chunk(current_nodes)>> ELSE <<>>)

\* C27: a chunk appended to the output keeps its members, content, type,
\* pages and node_count whatever nodes come later, and after node i the
\* chunks are those of the nodes 1..i and the average height alone
C27_FinalizedChunksNeverRevised ==
    /\ [](pc = "scan" => ChunksSoFar = ChunksOfPrefix)
    /\ [][/\ Len(chunks') >= Len(chunks)
          /\ \A i \in 1..Len(chunks) : Unnumbered(chunks'[i]) = Unnumbered(chunks[i])]_vars

\* the scan is at its third node with a chunk finalized at the first break
\* and another one after it
C27_Witness ==
    /\ pc = "scan"
    /\ scan_idx = 4
    /\ Len(chunks) = 2
    /\ Len(current_nodes) = 1
    /\ chunks[1].members # chunks[2].members

----------------------------------------------------------------------------
(* Properties of the heading nodes (ListSpec)                              *)

\* the surviving nodes of content_type heading whose content is not blank
HeadingNodesKept ==
    {i \in 1..Len(all_nodes) :
        /\ all_nodes[i].content_type = "heading"
        /\ Len(Strip(all_nodes[i].content)) > 0}

\* C28: every surviving heading node with content is the first member of its
\* chunk, and the chunks of type heading are as many as these nodes
C28_HeadingNodesOpenChunks ==
    Cleaned =>
        /\ \A i \in HeadingNodesKept :
              chunks[ChunkOf(i)].members[1] = all_nodes[i].nid
        /\ CountType(chunks, "heading") = Cardinality(HeadingNodesKept)

----------------------------------------------------------------------------
(* Properties of the stats of clean_document (Spec)                        *)

\* the nodes of the page files whose content_type is not page_raw_text
RECURSIVE CountedInput(_)
CountedInput(files) ==
    IF Len(files) = 0 THEN 0
    ELSE Cardinality({k \in 1..Len(files[1]) :
                         files[1][k].content_type # "page_raw_text"})
         + CountedInput(Tail(files))

\* C29: in the stats clean_document returns, the heading, paragraph and
\* list_item counts add up to total_chunks, total_chunks is the number of
\* chunks written, and total_nodes + dropped_nodes is the number of input
\* nodes that are not page_raw_text
C29_StatsConsistent ==
    Cleaned =>
        /\ stats.heading + stats.paragraph + stats.list_item = stats.total_chunks
        /\ stats.total_chunks = Len(chunks)
        /\ stats.total_nodes + stats.dropped_nodes = CountedInput(pages)

\* a document with a page_raw_text node, a dropped node and a kept node was
\* cleaned into a chunk
C29_Witness ==
    /\ Cleaned
    /\ stats.dropped_nodes = 1
    /\ stats.total_nodes = 1
    /\ stats.total_chunks = 1
    /\ CountedInput(pages) = 2
    /\ \E p \in 1..Len(pages) : \E k \in 1..Len(pages[p]) :
            pages[p][k].content_type = "page_raw_text"

----------------------------------------------------------------------------
(* Properties of segment_text (SegSpec)                                    *)

\* C30: the segments segment_text returns, concatenated in order and with
\* the whitespace removed, are the input text with the whitespace removed,
\* and no segment is empty
C30_SegmentsKeepContent ==
    seg_call = "segment_text" =>
        /\ NoSpace(Concat(seg_output)) = NoSpace(seg_input[1])
        /\ \A i \in 1..Len(seg_output) : Len(seg_output[i]) > 0

\* a text with a sentence delimiter and whitespace came back as two or more
\* segments that differ from the text by the whitespace only
C30_Witness ==
    /\ seg_call = "segment_text"
    /\ Len(seg_output) >= 2
    /\ \E i \in 1..Len(seg_input[1]) : seg_input[1][i] \in Whitespace
    /\ \E i \in 1..Len(seg_input[1]) : seg_input[1][i] \in SentenceDelimiters \ Whitespace
    /\ NoSpace(seg_input[1]) # seg_input[1]
    /\ Concat(seg_output) # seg_input[1]

====
